---------------------------- MODULE Spec2Model ----------------------------
(***************************************************************************)
(* Model of the jira-tui application core (internal/tui): the bubbletea    *)
(* root model App, its Update/handleKey message loop, the tab registry,    *)
(* the quick filter, the overlays and the detail-view stack.               *)
(*                                                                         *)
(* Strings that the program searches or edits are tuples of one-character  *)
(* strings; flash texts are tuples of tokens.  A tea.Cmd is a sequence of  *)
(* backend commands (empty = nil); the commands that were dispatched and   *)
(* whose result message was not handled yet are the bag "pending".         *)
(* "exit" tells whether the program runs, has quit (tea.Quit) or has       *)
(* panicked; "scn" is the environment of the run: the keys the user        *)
(* presses and the results the backend returns.                            *)
(***************************************************************************)
EXTENDS Integers, Sequences, FiniteSets, Bags, TLC

VARIABLES app, pending, exit, scn

vars == <<app, pending, exit, scn>>

-----------------------------------------------------------------------------
(* Bounds of the model *)

\* user keypresses that dispatch commands happen only below this many
\* outstanding commands (plus the backlog the environment of the run allows)
MaxPending == 1
\* depth of the view stack reachable by drill-in
MaxDepth == 3
\* number of characters the user types into one text widget
MaxText == 1
\* comments held by one detail view
MaxComments == 1
\* how far the in-flight counter may fall below the outstanding commands
MaxDrift == 2
\* number of characters typed into the quick filter of the filter-only runs
MaxQuery == 2
\* number of records in the list the quick filter of those runs works on
MaxList == 2

-----------------------------------------------------------------------------
(* Data the backend can return *)

K1 == <<"A", "1">>
K2 == <<"A", "2">>
IssueKeys == {K1, K2}
Columns == <<"key", "summary">>

\* on the server A-2 is a child of A-1
ParentOf(k) == IF k = K2 THEN K1 ELSE <<>>
\* a record as the server returns it
Issue(k, s) == [Key |-> k, Summary |-> s, Parent |-> ParentOf(k)]
\* jira.Issue{Key: k}
StubIssue(k) == [Key |-> k, Summary |-> <<>>, Parent |-> <<>>]
ServerComment == [Body |-> <<"s">>, Created |-> "2025"]
\* the children of a record: none found, or its children on the server
ChildLists(k) == {<<>>} \cup {<<StubIssue(c)>> : c \in {c \in IssueKeys : ParentOf(c) = k}}

Item(id, label, desc) == [ID |-> id, Label |-> label, Desc |-> desc]
TransitionLists == {<<>>, <<Item(<<"t1">>, <<"Q">>, <<>>), Item(<<"t2">>, <<"x">>, <<>>)>>}
PriorityList == <<Item(<<"p1">>, <<"Q">>, <<>>), Item(<<"p2">>, <<"1">>, <<>>)>>
UserList == <<Item(<<"u1">>, <<"Q">>, <<"x">>)>>
IssueTypeList == <<Item(<<"ty1">>, <<"x">>, <<>>)>>

-----------------------------------------------------------------------------
(* Strings *)

Min(a, b) == IF a < b THEN a ELSE b
Max(a, b) == IF a > b THEN a ELSE b

LowerChar(c) ==
    CASE c = "A" -> "a" [] c = "Q" -> "q" [] c = "Y" -> "y" [] c = "N" -> "n" [] OTHER -> c
\* strings.ToLower
ToLower(s) == [i \in 1..Len(s) |-> LowerChar(s[i])]

\* strings.Contains
Contains(s, sub) ==
    \E i \in 0..(Len(s) - Len(sub)) : SubSeq(s, i + 1, i + Len(sub)) = sub

IsSpace(c) == c \in {" ", "\n"}

RECURSIVE TrimLeft(_)
TrimLeft(s) == IF s # <<>> /\ IsSpace(Head(s)) THEN TrimLeft(Tail(s)) ELSE s
RECURSIVE TrimRight(_)
TrimRight(s) ==
    IF s # <<>> /\ IsSpace(s[Len(s)]) THEN TrimRight(SubSeq(s, 1, Len(s) - 1)) ELSE s
\* strings.TrimSpace
TrimSpace(s) == TrimRight(TrimLeft(s))

\* textinput / textarea: a printable key (a single rune) appends a character,
\* backspace removes the last one, other keys do nothing
Printable ==
    {"q", "/", "r", "c", "s", "p", "d", "i", "a", "t", "e", "y", "n", "Y", "N",
     "j", "k", "u", "o", " ", "1", "2", "3", "4", "5", "6", "7", "8", "9"}
TextUpdate(value, key) ==
    IF key \in Printable
    THEN Append(value, key)
    ELSE IF key = "backspace" /\ value # <<>>
         THEN SubSeq(value, 1, Len(value) - 1)
         ELSE value
\* textinput.SetValue
SetValue(s) == s

-----------------------------------------------------------------------------
(* bubbles table: rows and cursor *)

Clamp(v, low, high) == Min(Max(v, low), high)
SetRows(tb, rows) == [tb EXCEPT !.rows = rows]
SetCursor(tb, n) == [tb EXCEPT !.cursor = Clamp(n, 0, Len(tb.rows) - 1)]
GotoTop(tb) == SetCursor(tb, 0)
TableUpdate(tb, key) ==
    CASE key \in {"down", "j"} -> SetCursor(tb, tb.cursor + 1)
      [] key \in {"up", "k"}   -> SetCursor(tb, tb.cursor - 1)
      [] OTHER                 -> tb

fieldValue(issue, column) ==
    CASE column = "key"     -> issue.Key
      [] column = "summary" -> issue.Summary
      [] OTHER              -> <<>>

\* the cells of the modelled columns are their field values (only a priority
\* column, which is not modelled, shows an icon in place of the value)
issuesToRows(issues, columns) ==
    [i \in 1..Len(issues) |-> [j \in 1..Len(columns) |-> fieldValue(issues[i], columns[j])]]

-----------------------------------------------------------------------------
(* Quick filter (filter.go) *)

\* a filterIssues that compares the values with the query as typed
RECURSIVE filterIssues_CaseSensitive(_, _, _)
filterIssues_CaseSensitive(issues, columns, query) ==
    IF issues = <<>> THEN <<>>
    ELSE LET issue == Head(issues)
             hit == \E j \in 1..Len(columns) :
                        Contains(fieldValue(issue, columns[j]), query)
         IN  (IF hit THEN <<issue>> ELSE <<>>)
                \o filterIssues_CaseSensitive(Tail(issues), columns, query)

RECURSIVE filterIssues(_, _, _)
filterIssues(issues, columns, query) ==
    IF issues = <<>> THEN <<>>
    ELSE LET issue == Head(issues)
             hit == \E j \in 1..Len(columns) :
                        Contains(ToLower(fieldValue(issue, columns[j])), ToLower(query))
         IN  (IF hit THEN <<issue>> ELSE <<>>) \o filterIssues(Tail(issues), columns, query)

newIssueFilter ==
    [state |-> "inactive", input |-> <<>>, query |-> <<>>,
     total |-> 0, matched |-> 0, filtered |-> <<>>]

activate(f) == [f EXCEPT !.state = "focused"]

clear(f) ==
    [f EXCEPT !.state = "inactive", !.query = <<>>, !.input = <<>>,
              !.filtered = <<>>, !.total = 0, !.matched = 0]

\* an apply that confirms an empty query as a filter that matches everything
apply_EmptyMatchesAll(f, allIssues, columns) ==
    LET q == TrimSpace(f.input)
        res == filterIssues(allIssues, columns, q)
    IN  [f EXCEPT !.query = q, !.state = "applied", !.filtered = res,
                  !.total = Len(allIssues), !.matched = Len(res)]

apply(f, allIssues, columns) ==
    LET q == TrimSpace(f.input)
        res == filterIssues(allIssues, columns, q)
    IN  IF q = <<>> THEN clear(f)
        ELSE [f EXCEPT !.query = q, !.state = "applied", !.filtered = res,
                       !.total = Len(allIssues), !.matched = Len(res)]

updateQuery(f, allIssues, columns) ==
    LET q == TrimSpace(f.input)
        res == filterIssues(allIssues, columns, q)
    IN  IF q = <<>>
        THEN [f EXCEPT !.query = q, !.filtered = allIssues,
                       !.total = Len(allIssues), !.matched = Len(allIssues)]
        ELSE [f EXCEPT !.query = q, !.filtered = res,
                       !.total = Len(allIssues), !.matched = Len(res)]

isActive(f) == f.state # "inactive"
isFocused(f) == f.state = "focused"

visibleIssues(f, allIssues) ==
    IF f.state = "inactive" \/ f.query = <<>> THEN allIssues ELSE f.filtered

-----------------------------------------------------------------------------
(* Tab *)

newTab ==
    [state |-> "loading", errMsg |-> <<>>, issues |-> <<>>,
     table |-> [rows |-> <<>>, cursor |-> 0],
     quickFilter |-> newIssueFilter]

\* tab.setSize: the table is re-rendered from the tab's issues
setSize(t) ==
    IF t.state = "ready"
    THEN [t EXCEPT !.table = SetRows(@, issuesToRows(t.issues, Columns))]
    ELSE t

setIssues(t, issues) ==
    LET t1 == [t EXCEPT !.issues = issues, !.quickFilter = clear(@)]
    IN  IF Len(issues) = 0
        THEN [t1 EXCEPT !.state = "empty"]
        ELSE [t1 EXCEPT !.state = "ready",
                        !.table = GotoTop(SetRows(@, issuesToRows(issues, Columns)))]

setError(t, msg) == [t EXCEPT !.state = "error", !.errMsg = msg]

setLoading(t) == [t EXCEPT !.state = "loading", !.issues = <<>>]

HasSelection(t) ==
    /\ t.state = "ready"
    /\ Len(t.issues) # 0
    /\ t.table.cursor >= 0
    /\ t.table.cursor < Len(visibleIssues(t.quickFilter, t.issues))

\* tab.selectedIssue, defined when HasSelection(t)
selectedIssue(t) == visibleIssues(t.quickFilter, t.issues)[t.table.cursor + 1]

applyFilter(t) ==
    [t EXCEPT !.table =
        GotoTop(SetRows(@, issuesToRows(visibleIssues(t.quickFilter, t.issues), Columns)))]

IndexOfKey(issues, key) ==
    IF \E i \in 1..Len(issues) : issues[i].Key = key
    THEN CHOOSE i \in 1..Len(issues) :
            /\ issues[i].Key = key
            /\ \A j \in 1..(i - 1) : issues[j].Key # key
    ELSE 0

applyFilterKeepCursor(t, selectedKey) ==
    LET visible == visibleIssues(t.quickFilter, t.issues)
        oldCursor == t.table.cursor
        tb == SetRows(t.table, issuesToRows(visible, Columns))
        found == IndexOfKey(visible, selectedKey)
        c1 == IF oldCursor >= Len(visible) THEN Len(visible) - 1 ELSE oldCursor
        c2 == IF c1 < 0 THEN 0 ELSE c1
    IN  IF found # 0
        THEN [t EXCEPT !.table = SetCursor(tb, found - 1)]
        ELSE [t EXCEPT !.table = SetCursor(tb, c2)]

\* a clearFilter that resets the filter and leaves the table's rows alone
clearFilter_FilterOnly(t) == [t EXCEPT !.quickFilter = clear(@)]

clearFilter(t) ==
    [t EXCEPT !.quickFilter = clear(@),
              !.table = GotoTop(SetRows(@, issuesToRows(t.issues, Columns)))]

-----------------------------------------------------------------------------
(* Detail view (detail.go) *)

newIssueDetailView(issue) ==
    [issue |-> issue, loading |-> TRUE, dirty |-> FALSE,
     comments |-> <<>>, commentsLoading |-> TRUE,
     children |-> <<>>, childrenLoading |-> TRUE]

updateIssue(v, issue) == [v EXCEPT !.issue = issue, !.dirty = TRUE]

\* issueDetailView.relatedIssues: the parent, then the fetched children; the
\* modelled records have no subtasks and no links
relatedIssues(v) ==
    (IF v.issue.Parent # <<>>
     THEN <<[ID |-> v.issue.Parent,
             Label |-> v.issue.Parent \o <<" ", " ", "Parent">>,
             Desc |-> <<"Parent">>]>>
     ELSE <<>>)
    \o [i \in 1..Len(v.children) |->
        [ID |-> v.children[i].Key,
         Label |-> v.children[i].Key \o <<" ">> \o v.children[i].Summary \o <<" ", "Child">>,
         Desc |-> <<"Child">>]]

-----------------------------------------------------------------------------
(* Overlays *)

NoOverlay == [kind |-> "none"]
Nil == [type |-> "nil"]
ItemResult(it) == [type |-> "item", item |-> it]
StringResult(s) == [type |-> "string", value |-> s]
BoolResult(b) == [type |-> "bool", value |-> b]

RECURSIVE MatchingIndices(_, _, _)
MatchingIndices(items, query, i) ==
    IF i > Len(items) THEN <<>>
    ELSE (IF \/ query = <<>>
             \/ Contains(ToLower(items[i].Label), query)
             \/ Contains(ToLower(items[i].Desc), query)
          THEN <<i>> ELSE <<>>) \o MatchingIndices(items, query, i + 1)

\* an applyFilter that recomputes the filtered subset and leaves the cursor
\* where it was
selectionOverlay_applyFilter_NoClamp(s) ==
    [s EXCEPT !.filtered = MatchingIndices(s.items, ToLower(s.filter), 1)]

selectionOverlay_applyFilter(s) ==
    LET filtered == MatchingIndices(s.items, ToLower(s.filter), 1)
    IN  [s EXCEPT !.filtered = filtered,
                  !.cursor = IF @ >= Len(filtered) THEN Max(0, Len(filtered) - 1) ELSE @]

newSelectionOverlay(title, items) ==
    selectionOverlay_applyFilter(
        [kind |-> "selection", title |-> title, items |-> items, filtered |-> <<>>,
         cursor |-> 0, filter |-> <<>>, isDone |-> FALSE, result |-> Nil])

selectionOverlay_Update(s, key) ==
    CASE key = "esc" -> [s EXCEPT !.isDone = TRUE, !.result = Nil]
      [] key = "enter" ->
            IF Len(s.filtered) > 0 /\ s.cursor < Len(s.filtered)
            THEN [s EXCEPT !.isDone = TRUE,
                           !.result = ItemResult(s.items[s.filtered[s.cursor + 1]])]
            ELSE [s EXCEPT !.isDone = TRUE]
      [] key \in {"up", "ctrl+p"} -> IF s.cursor > 0 THEN [s EXCEPT !.cursor = @ - 1] ELSE s
      [] key \in {"down", "ctrl+n"} ->
            IF s.cursor < Len(s.filtered) - 1 THEN [s EXCEPT !.cursor = @ + 1] ELSE s
      [] OTHER -> selectionOverlay_applyFilter([s EXCEPT !.filter = TextUpdate(@, key)])

newTextInputOverlay(title, initial) ==
    [kind |-> "textInput", title |-> title, input |-> SetValue(initial),
     isDone |-> FALSE, result |-> Nil]

textInputOverlay_Update(t, key) ==
    CASE key = "esc" -> [t EXCEPT !.isDone = TRUE, !.result = Nil]
      [] key = "enter" -> [t EXCEPT !.isDone = TRUE, !.result = StringResult(t.input)]
      [] OTHER -> [t EXCEPT !.input = TextUpdate(@, key)]

newTextEditorOverlay(title, initial) ==
    [kind |-> "textEditor", title |-> title, editor |-> SetValue(initial),
     isDone |-> FALSE, result |-> Nil]

\* enter inserts a newline (KeyMap.InsertNewline), ctrl+s saves
textEditorOverlay_Update(e, key) ==
    CASE key = "esc" -> [e EXCEPT !.isDone = TRUE, !.result = Nil]
      [] key = "ctrl+s" -> [e EXCEPT !.isDone = TRUE, !.result = StringResult(e.editor)]
      [] key = "enter" ->
            [e EXCEPT !.editor = Append(@, "\n")]
      [] OTHER -> [e EXCEPT !.editor = TextUpdate(@, key)]

newConfirmOverlay(message) ==
    [kind |-> "confirm", message |-> message, isDone |-> FALSE, result |-> Nil]

confirmOverlay_Update(c, key) ==
    CASE key \in {"y", "Y"} -> [c EXCEPT !.isDone = TRUE, !.result = BoolResult(TRUE)]
      [] key \in {"n", "N", "esc"} -> [c EXCEPT !.isDone = TRUE, !.result = Nil]
      [] OTHER -> c

\* overlay.Update, dispatched on the dynamic type
overlay_Update(o, key) ==
    CASE o.kind = "selection"  -> selectionOverlay_Update(o, key)
      [] o.kind = "textInput"  -> textInputOverlay_Update(o, key)
      [] o.kind = "textEditor" -> textEditorOverlay_Update(o, key)
      [] o.kind = "confirm"    -> confirmOverlay_Update(o, key)

-----------------------------------------------------------------------------
(* App: commands *)

\* what Update returns: the new model, the commands of the returned tea.Cmd,
\* whether it is tea.Quit, and whether a type assertion failed
Ret(a, cmds) == [app |-> a, cmds |-> cmds, quit |-> FALSE, panic |-> FALSE]
QuitRet(a) == [app |-> a, cmds |-> <<>>, quit |-> TRUE, panic |-> FALSE]
PanicRet(a) == [app |-> a, cmds |-> <<>>, quit |-> FALSE, panic |-> TRUE]

NoKey == <<>>
NewKey == <<"A", "3">>
DefaultProject == <<"P">>
Cmd(type, key, arg) == [type |-> type, key |-> key, arg |-> arg]

boolToInt(b) == IF b THEN 1 ELSE 0

\* returns the model with the counter incremented, and the command
startNetwork(a, cmd) ==
    IF cmd = <<>> THEN [app |-> a, cmd |-> <<>>]
    ELSE [app |-> [a EXCEPT !.inflight = @ + 1], cmd |-> cmd]

checkConnection(a) == <<Cmd("checkConnection", NoKey, <<>>)>>

loadTab(a, index) ==
    IF ~a.client \/ index < 0 \/ index >= Len(a.tabs) THEN <<>>
    ELSE <<Cmd("loadTab", NoKey, <<index>>)>>

RECURSIVE loadTabsFrom(_, _)
loadTabsFrom(a, i) ==
    IF i >= Len(a.tabs) THEN <<>> ELSE loadTab(a, i) \o loadTabsFrom(a, i + 1)
\* a loadAllTabs that loads the active tab only
loadAllTabs_ActiveOnly(a) == loadTab(a, a.activeTab)

loadAllTabs(a) == loadTabsFrom(a, 0)

cmdFetchIssue(a, issueKey) ==
    IF ~a.client THEN <<>> ELSE <<Cmd("cmdFetchIssue", issueKey, <<>>)>>
cmdFetchChildren(a, issueKey) ==
    IF ~a.client THEN <<>> ELSE <<Cmd("cmdFetchChildren", issueKey, <<>>)>>
cmdFetchComments(a, issueKey) ==
    IF ~a.client THEN <<>> ELSE <<Cmd("cmdFetchComments", issueKey, <<>>)>>
cmdAddComment(a, issueKey, text) ==
    IF ~a.client THEN <<>> ELSE <<Cmd("cmdAddComment", issueKey, text)>>
cmdMarkDone(a, issueKey) == <<Cmd("cmdMarkDone", issueKey, <<>>)>>
cmdAssignToMe(a, issueKey) == <<Cmd("cmdAssignToMe", issueKey, <<>>)>>
cmdFetchTransitions(a, issueKey) ==
    IF ~a.client THEN <<>> ELSE <<Cmd("cmdFetchTransitions", issueKey, <<>>)>>
cmdFetchPriorities(a, issueKey) ==
    IF ~a.client THEN <<>> ELSE <<Cmd("cmdFetchPriorities", issueKey, <<>>)>>
cmdTransitionIssue(a, issueKey, transitionID) ==
    <<Cmd("cmdTransitionIssue", issueKey, transitionID)>>
cmdUpdateField(a, issueKey, field) == <<Cmd("cmdUpdateField", issueKey, <<field>>)>>
cmdDeleteIssue(a, issueKey) == <<Cmd("cmdDeleteIssue", issueKey, <<>>)>>
cmdFetchAndCacheUsers(a) == <<Cmd("cmdFetchAndCacheUsers", NoKey, <<>>)>>
cmdFetchIssueTypes(a) ==
    IF ~a.client THEN <<>> ELSE <<Cmd("cmdFetchIssueTypes", NoKey, <<>>)>>
cmdCreateIssue(a, summary, issueTypeName) ==
    IF ~a.client THEN <<>> ELSE <<Cmd("cmdCreateIssue", NoKey, issueTypeName)>>

-----------------------------------------------------------------------------
(* App: model *)

NewApp(client) ==
    [client |-> client, user |-> FALSE, connErr |-> FALSE,
     checking |-> client, connected |-> FALSE,
     tabs |-> <<newTab, newTab>>, activeTab |-> 0, viewStack |-> <<>>,
     overlay |-> NoOverlay, overlayIssue |-> <<>>, overlayAction |-> "none",
     flash |-> <<>>, flashIsErr |-> FALSE,
     cachedUsers |-> <<>>, cachedPriorities |-> <<>>,
     createSummary |-> <<>>,
     inflight |-> boolToInt(client)]

SetFlash(a, text, isErr) == [a EXCEPT !.flash = text, !.flashIsErr = isErr]

Depth(a) == Len(a.viewStack)
Top(a) == a.viewStack[Len(a.viewStack)]
SetTop(a, dv) == [a EXCEPT !.viewStack[Len(a.viewStack)] = dv]
Pop(a) == [a EXCEPT !.viewStack = SubSeq(@, 1, Len(@) - 1)]
Push(a, dv) == [a EXCEPT !.viewStack = Append(@, dv)]
\* the top view shows issueKey
TopShows(a, issueKey) == Depth(a) > 0 /\ Top(a).issue.Key = issueKey

ActiveTabOK(a) == a.activeTab < Len(a.tabs)
ActiveTab(a) == a.tabs[a.activeTab + 1]

RemoveAt(seq, i) == SubSeq(seq, 1, i - 1) \o SubSeq(seq, i + 1, Len(seq))

\* one tab of applyIssueUpdate's loop
applyIssueUpdateTab(t, issueKey, updated) ==
    LET ii == IndexOfKey(t.issues, issueKey)
    IN  IF ii = 0 THEN t
        ELSE applyFilterKeepCursor([t EXCEPT !.issues[ii] = updated], issueKey)

applyIssueUpdate(a, issueKey, updated) ==
    LET a1 == [a EXCEPT !.tabs =
                  [ti \in 1..Len(a.tabs) |-> applyIssueUpdateTab(a.tabs[ti], issueKey, updated)]]
    IN  IF TopShows(a1, issueKey)
        THEN SetTop(a1, updateIssue(Top(a1), updated))
        ELSE a1

\* one tab of the optimistic delete loop
deleteFromTab(t, issueKey) ==
    LET ii == IndexOfKey(t.issues, issueKey)
    IN  IF ii = 0 THEN t
        ELSE applyFilterKeepCursor([t EXCEPT !.issues = RemoveAt(@, ii)], issueKey)

-----------------------------------------------------------------------------
(* App: overlay results *)

\* push a detail view for a related issue and fetch it
drillIn(a, item) ==
    LET a1 == [Push(a, newIssueDetailView(StubIssue(item.ID))) EXCEPT !.inflight = @ + 2]
        sn == startNetwork(a1, cmdFetchIssue(a1, item.ID))
    IN  Ret(sn.app, sn.cmd \o cmdFetchComments(a1, item.ID) \o cmdFetchChildren(a1, item.ID))

optimisticDelete(a, issueKey) ==
    LET a1 == IF TopShows(a, issueKey) THEN Pop(a) ELSE a
        a2 == [a1 EXCEPT !.tabs =
                  [ti \in 1..Len(a1.tabs) |-> deleteFromTab(a1.tabs[ti], issueKey)]]
    IN  Ret(SetFlash(a2, issueKey \o <<"deleted">>, FALSE), cmdDeleteIssue(a2, issueKey))

addComment(a, issueKey, text) ==
    LET placeholder == [Body |-> text, Created |-> "just now"]
        a1 == IF Depth(a) > 0
              THEN SetTop(a, [Top(a) EXCEPT !.comments = <<placeholder>> \o @])
              ELSE a
        sn == startNetwork(SetFlash(a1, <<"Adding comment...">>, FALSE),
                           cmdAddComment(a1, issueKey, text))
    IN  Ret(sn.app, sn.cmd)

handleOverlayResult(a0, result) ==
    LET issueKey == a0.overlayIssue
        action == a0.overlayAction
        a == [a0 EXCEPT !.overlay = NoOverlay, !.overlayIssue = <<>>,
                        !.overlayAction = "none"]
        isItem == result.type = "item"
        isString == result.type = "string"
    IN  IF result = Nil THEN Ret(a, <<>>)
        ELSE CASE action = "transition" ->
                    IF ~isItem THEN PanicRet(a)
                    ELSE Ret(SetFlash(a, <<"Transitioning">> \o issueKey \o <<"...">>, FALSE),
                             cmdTransitionIssue(a, issueKey, result.item.ID))
               [] action = "priority" ->
                    IF ~isItem THEN PanicRet(a)
                    ELSE Ret(SetFlash(a, <<"Setting priority on">> \o issueKey \o <<"...">>, FALSE),
                             cmdUpdateField(a, issueKey, "priority"))
               [] action = "assignee" ->
                    IF ~isItem THEN PanicRet(a)
                    ELSE Ret(SetFlash(a, <<"Assigning">> \o issueKey \o <<"...">>, FALSE),
                             cmdUpdateField(a, issueKey, "assignee"))
               [] action = "title" ->
                    IF ~isString THEN PanicRet(a)
                    ELSE Ret(SetFlash(a, <<"Updating title of">> \o issueKey \o <<"...">>, FALSE),
                             cmdUpdateField(a, issueKey, "summary"))
               [] action = "description" ->
                    IF ~isString THEN PanicRet(a)
                    ELSE Ret(SetFlash(a, <<"Updating description of">> \o issueKey \o <<"...">>, FALSE),
                             cmdUpdateField(a, issueKey, "description"))
               [] action = "delete" -> optimisticDelete(a, issueKey)
               [] action = "createSummary" ->
                    IF ~isString THEN PanicRet(a)
                    ELSE IF TrimSpace(result.value) = <<>>
                    THEN Ret(SetFlash(a, <<"Summary cannot be empty">>, TRUE), <<>>)
                    ELSE Ret(SetFlash([a EXCEPT !.createSummary = result.value,
                                                !.overlayAction = "createType"],
                                      <<"Loading issue types...">>, FALSE),
                             cmdFetchIssueTypes(a))
               [] action = "createType" ->
                    IF ~isItem THEN PanicRet(a)
                    ELSE Ret(SetFlash([a EXCEPT !.createSummary = <<>>],
                                      <<"Creating issue...">>, FALSE),
                             cmdCreateIssue(a, a.createSummary, result.item.Label))
               [] action = "drillIn" ->
                    IF ~isItem THEN PanicRet(a) ELSE drillIn(a, result.item)
               [] action = "addComment" ->
                    IF ~isString THEN PanicRet(a)
                    ELSE IF TrimSpace(result.value) = <<>>
                    THEN Ret(SetFlash(a, <<"Comment cannot be empty">>, TRUE), <<>>)
                    ELSE addComment(a, issueKey, result.value)
               [] OTHER -> Ret(a, <<>>)

-----------------------------------------------------------------------------
(* App: edit hotkeys *)

editHotkeys == {"s", "p", "d", "e", "t", "i", "a", "delete", "u", "y", "o"}

Handled(r) == [handled |-> TRUE, ret |-> r]
NotHandled(a) == [handled |-> FALSE, ret |-> Ret(a, <<>>)]
\* a not-connected notice shown as information rather than as an error
NotConnected_Info(a) == SetFlash(a, <<"Not connected to Jira">>, FALSE)

NotConnected(a) == SetFlash(a, <<"Not connected to Jira">>, TRUE)

\* env.clip / env.browser: whether the clipboard write / the browser start
\* succeeds
handleEditHotkey(a, key, issue, env) ==
    IF key \notin editHotkeys THEN NotHandled(a)
    ELSE IF key = "y" THEN
        Handled(Ret(IF env.clip THEN SetFlash(a, <<"Copied">> \o issue.Key, FALSE)
                    ELSE SetFlash(a, <<"Clipboard unavailable">>, TRUE), <<>>))
    ELSE IF key = "u" THEN
        Handled(Ret(IF ~a.client THEN NotConnected(a)
                    ELSE IF env.clip THEN SetFlash(a, <<"Copied URL">>, FALSE)
                    ELSE SetFlash(a, <<"Clipboard unavailable">>, TRUE), <<>>))
    ELSE IF key = "o" THEN
        Handled(Ret(IF ~a.client THEN NotConnected(a)
                    ELSE IF env.browser
                    THEN SetFlash(a, <<"Opened">> \o issue.Key \o <<"in browser">>, FALSE)
                    ELSE SetFlash(a, <<"Could not open browser">>, TRUE), <<>>))
    ELSE IF ~a.client THEN Handled(Ret(NotConnected(a), <<>>))
    ELSE CASE key = "d" ->
                Handled(Ret(SetFlash(a, <<"Marking">> \o issue.Key \o <<"as done...">>, FALSE),
                            cmdMarkDone(a, issue.Key)))
           [] key = "i" ->
                IF ~a.user
                THEN Handled(Ret(SetFlash(a, <<"Not logged in">>, TRUE), <<>>))
                ELSE Handled(Ret(SetFlash(a, <<"Assigning">> \o issue.Key \o <<"to you...">>, FALSE),
                                 cmdAssignToMe(a, issue.Key)))
           [] key = "s" ->
                Handled(Ret(SetFlash([a EXCEPT !.overlayIssue = issue.Key,
                                               !.overlayAction = "transition"],
                                     <<"Loading transitions...">>, FALSE),
                            cmdFetchTransitions(a, issue.Key)))
           [] key = "p" ->
                LET a1 == [a EXCEPT !.overlayIssue = issue.Key, !.overlayAction = "priority"]
                IN  IF Len(a.cachedPriorities) > 0
                    THEN Handled(Ret([a1 EXCEPT !.overlay =
                            newSelectionOverlay("Change Priority", a.cachedPriorities)], <<>>))
                    ELSE Handled(Ret(SetFlash(a1, <<"Loading priorities...">>, FALSE),
                                     cmdFetchPriorities(a, issue.Key)))
           [] key = "a" ->
                LET a1 == [a EXCEPT !.overlayIssue = issue.Key, !.overlayAction = "assignee"]
                IN  IF Len(a.cachedUsers) > 0
                    THEN Handled(Ret([a1 EXCEPT !.overlay =
                            newSelectionOverlay("Assign To", a.cachedUsers)], <<>>))
                    ELSE Handled(Ret(SetFlash(a1, <<"Loading users...">>, FALSE),
                                     cmdFetchAndCacheUsers(a)))
           [] key = "t" ->
                Handled(Ret([a EXCEPT !.overlay = newTextInputOverlay("Edit Title", issue.Summary),
                                      !.overlayIssue = issue.Key,
                                      !.overlayAction = "title"], <<>>))
           [] key = "e" ->
                Handled(Ret([a EXCEPT !.overlay = newTextEditorOverlay("Edit Description", <<>>),
                                      !.overlayIssue = issue.Key,
                                      !.overlayAction = "description"], <<>>))
           [] key = "delete" ->
                Handled(Ret([a EXCEPT !.overlay = newConfirmOverlay(<<"Delete">> \o issue.Key),
                                      !.overlayIssue = issue.Key,
                                      !.overlayAction = "delete"], <<>>))
           [] OTHER -> NotHandled(a)

-----------------------------------------------------------------------------
(* App: keys *)

SetActiveTab(a, t) == [a EXCEPT !.tabs[a.activeTab + 1] = t]

handleFilterKey(a, key) ==
    LET tab == ActiveTab(a)
    IN  CASE key \in {"enter", "down"} ->
                Ret(SetActiveTab(a, applyFilter(
                        [tab EXCEPT !.quickFilter = apply(@, tab.issues, Columns)])), <<>>)
          [] key = "esc" -> Ret(SetActiveTab(a, clearFilter(tab)), <<>>)
          [] OTHER ->
                LET t1 == [tab EXCEPT !.quickFilter.input = TextUpdate(@, key)]
                    t2 == [t1 EXCEPT !.quickFilter = updateQuery(@, t1.issues, Columns)]
                IN  Ret(SetActiveTab(a, applyFilter(t2)), <<>>)

\* keys while a view is on the stack, with a back key that re-fetches the
\* record of every view it closes
handleStackKey_RefetchAlways(a, key, env) ==
    CASE key = "q" -> QuitRet(a)
      [] key = "esc" -> Ret(Pop(a), cmdFetchIssue(a, Top(a).issue.Key))
      [] key = "enter" ->
            LET items == relatedIssues(Top(a))
            IN  IF Len(items) = 0
                THEN Ret(SetFlash(a, <<"No related issues">>, FALSE), <<>>)
                ELSE Ret([a EXCEPT !.overlay = newSelectionOverlay("Related Issues", items),
                                   !.overlayAction = "drillIn"], <<>>)
      [] key = "c" ->
            IF ~a.client THEN Ret(NotConnected(a), <<>>)
            ELSE Ret([a EXCEPT !.overlay = newTextEditorOverlay("Add Comment", <<>>),
                               !.overlayIssue = Top(a).issue.Key,
                               !.overlayAction = "addComment"], <<>>)
      [] OTHER ->
            LET h == handleEditHotkey(a, key, Top(a).issue, env)
            IN  IF h.handled THEN h.ret ELSE Ret(a, <<>>)

\* a stack key handler in which the digit keys switch tabs underneath the
\* open views
handleStackKey_DigitsSwitch(a, key, env) ==
    CASE key = "q" -> QuitRet(a)
      [] key = "esc" ->
            LET dv == Top(a)
            IN  IF dv.dirty /\ a.connected
                THEN Ret(Pop(a), cmdFetchIssue(a, dv.issue.Key))
                ELSE Ret(Pop(a), <<>>)
      [] key \in {"1", "2", "3", "4", "5", "6", "7", "8", "9"} ->
            LET idx == (CHOOSE d \in 1..9 : ToString(d) = key) - 1
            IN  IF idx < Len(a.tabs) THEN Ret([a EXCEPT !.activeTab = idx], <<>>)
                ELSE Ret(a, <<>>)
      [] key = "enter" ->
            LET items == relatedIssues(Top(a))
            IN  IF Len(items) = 0
                THEN Ret(SetFlash(a, <<"No related issues">>, FALSE), <<>>)
                ELSE Ret([a EXCEPT !.overlay = newSelectionOverlay("Related Issues", items),
                                   !.overlayAction = "drillIn"], <<>>)
      [] key = "c" ->
            IF ~a.client THEN Ret(NotConnected(a), <<>>)
            ELSE Ret([a EXCEPT !.overlay = newTextEditorOverlay("Add Comment", <<>>),
                               !.overlayIssue = Top(a).issue.Key,
                               !.overlayAction = "addComment"], <<>>)
      [] OTHER ->
            LET h == handleEditHotkey(a, key, Top(a).issue, env)
            IN  IF h.handled THEN h.ret ELSE Ret(a, <<>>)

\* keys while a view is on the stack
handleStackKey(a, key, env) ==
    CASE key = "q" -> QuitRet(a)
      [] key = "esc" ->
            LET dv == Top(a)
            IN  IF dv.dirty /\ a.connected
                THEN Ret(Pop(a), cmdFetchIssue(a, dv.issue.Key))
                ELSE Ret(Pop(a), <<>>)
      [] key = "enter" ->
            LET items == relatedIssues(Top(a))
            IN  IF Len(items) = 0
                THEN Ret(SetFlash(a, <<"No related issues">>, FALSE), <<>>)
                ELSE Ret([a EXCEPT !.overlay = newSelectionOverlay("Related Issues", items),
                                   !.overlayAction = "drillIn"], <<>>)
      [] key = "c" ->
            IF ~a.client THEN Ret(NotConnected(a), <<>>)
            ELSE Ret([a EXCEPT !.overlay = newTextEditorOverlay("Add Comment", <<>>),
                               !.overlayIssue = Top(a).issue.Key,
                               !.overlayAction = "addComment"], <<>>)
      [] OTHER ->
            LET h == handleEditHotkey(a, key, Top(a).issue, env)
            IN  IF h.handled THEN h.ret ELSE Ret(a, <<>>)

\* an openDetail that shows a key-only stub until the full record arrives
openDetail_Stub(a, issue) ==
    LET a1 == [Push(a, newIssueDetailView(StubIssue(issue.Key))) EXCEPT !.inflight = @ + 2]
        sn == startNetwork(a1, cmdFetchIssue(a1, issue.Key))
    IN  Ret(sn.app, sn.cmd \o cmdFetchComments(a1, issue.Key) \o cmdFetchChildren(a1, issue.Key))

\* open the detail view of the selected issue
openDetail(a, issue) ==
    LET a1 == [Push(a, newIssueDetailView(issue)) EXCEPT !.inflight = @ + 2]
        sn == startNetwork(a1, cmdFetchIssue(a1, issue.Key))
    IN  Ret(sn.app, sn.cmd \o cmdFetchComments(a1, issue.Key) \o cmdFetchChildren(a1, issue.Key))

TabDigits == {"1", "2", "3", "4", "5", "6", "7", "8", "9"}
DigitValue(key) ==
    CASE key = "1" -> 1 [] key = "2" -> 2 [] key = "3" -> 3 [] key = "4" -> 4
      [] key = "5" -> 5 [] key = "6" -> 6 [] key = "7" -> 7 [] key = "8" -> 8
      [] key = "9" -> 9

\* tab-level keys: no overlay, no stacked view, filter not focused
handleTabKey(a, key, env) ==
    CASE key = "q" -> QuitRet(a)
      [] key = "esc" ->
            IF ActiveTabOK(a) /\ isActive(ActiveTab(a).quickFilter)
            THEN Ret(SetActiveTab(a, clearFilter(ActiveTab(a))), <<>>)
            ELSE Ret(a, <<>>)
      [] key = "/" ->
            IF ActiveTabOK(a) /\ ActiveTab(a).state = "ready"
            THEN Ret(SetActiveTab(a, [ActiveTab(a) EXCEPT !.quickFilter = activate(@)]), <<>>)
            ELSE Ret(a, <<>>)
      [] key = "r" ->
            IF a.connected /\ ActiveTabOK(a)
            THEN LET a1 == SetActiveTab(a, setLoading(ActiveTab(a)))
                     sn == startNetwork(a1, loadTab(a1, a1.activeTab))
                 IN  Ret(sn.app, sn.cmd)
            ELSE Ret(a, <<>>)
      [] key = "c" ->
            IF ~a.client THEN Ret(NotConnected(a), <<>>)
            ELSE IF DefaultProject = <<>>
            THEN Ret(SetFlash(a, <<"Set default_project in config to create issues">>, TRUE), <<>>)
            ELSE Ret([a EXCEPT !.overlay = newTextInputOverlay("New Issue Summary", <<>>),
                               !.overlayAction = "createSummary"], <<>>)
      [] key = "enter" ->
            IF ActiveTabOK(a) /\ HasSelection(ActiveTab(a))
            THEN openDetail(a, selectedIssue(ActiveTab(a)))
            ELSE Ret(a, <<>>)
      [] key \in TabDigits ->
            IF DigitValue(key) - 1 < Len(a.tabs)
            THEN LET a1 == IF ActiveTabOK(a)
                           THEN SetActiveTab(a, clearFilter(ActiveTab(a))) ELSE a
                 IN  Ret([a1 EXCEPT !.activeTab = DigitValue(key) - 1], <<>>)
            ELSE Ret(a, <<>>)
      [] OTHER ->
            LET ready == ActiveTabOK(a) /\ ActiveTab(a).state = "ready"
                h == IF ready /\ HasSelection(ActiveTab(a))
                     THEN handleEditHotkey(a, key, selectedIssue(ActiveTab(a)), env)
                     ELSE NotHandled(a)
            IN  IF h.handled THEN h.ret
                ELSE IF ready
                THEN Ret(SetActiveTab(a, [ActiveTab(a) EXCEPT !.table = TableUpdate(@, key)]), <<>>)
                ELSE Ret(a, <<>>)

\* a handleOverlayKey that closes a cancelled overlay and keeps the action
\* and the target key for the next overlay
handleOverlayKey_CancelKeepsTarget(a, key) ==
    LET o == overlay_Update(a.overlay, key)
    IN  IF o.isDone
        THEN IF o.result = Nil THEN Ret([a EXCEPT !.overlay = NoOverlay], <<>>)
             ELSE handleOverlayResult([a EXCEPT !.overlay = o], o.result)
        ELSE Ret([a EXCEPT !.overlay = o], <<>>)

\* keys while an overlay is active
handleOverlayKey(a, key) ==
    LET o == overlay_Update(a.overlay, key)
    IN  IF o.isDone THEN handleOverlayResult([a EXCEPT !.overlay = o], o.result)
        ELSE Ret([a EXCEPT !.overlay = o], <<>>)

\* a handleKey that serves the quit key before the overlay
handleKey_QuitBeforeOverlay(a, key, env) ==
    IF key \in {"ctrl+c", "q"} THEN QuitRet(a)
    ELSE IF a.overlay # NoOverlay THEN handleOverlayKey(a, key)
    ELSE IF Len(a.viewStack) > 0 THEN handleStackKey(a, key, env)
    ELSE IF ActiveTabOK(a) /\ isFocused(ActiveTab(a).quickFilter) THEN handleFilterKey(a, key)
    ELSE handleTabKey(a, key, env)

\* a handleKey that tries the tab-level keys before the focused filter
handleKey_TabBeforeFilter(a, key, env) ==
    IF key = "ctrl+c" THEN QuitRet(a)
    ELSE IF a.overlay # NoOverlay THEN handleOverlayKey(a, key)
    ELSE IF Len(a.viewStack) > 0 THEN handleStackKey(a, key, env)
    ELSE IF key \in {"q"} \cup TabDigits THEN handleTabKey(a, key, env)
    ELSE IF ActiveTabOK(a) /\ isFocused(ActiveTab(a).quickFilter) THEN handleFilterKey(a, key)
    ELSE handleTabKey(a, key, env)

\* a handleKey in which an active overlay receives every key
handleKey_OverlayBeforeQuit(a, key, env) ==
    IF a.overlay # NoOverlay THEN handleOverlayKey(a, key)
    ELSE IF key = "ctrl+c" THEN QuitRet(a)
    ELSE IF Len(a.viewStack) > 0 THEN handleStackKey(a, key, env)
    ELSE IF ActiveTabOK(a) /\ isFocused(ActiveTab(a).quickFilter) THEN handleFilterKey(a, key)
    ELSE handleTabKey(a, key, env)

handleKey(a, key, env) ==
    IF key = "ctrl+c" THEN QuitRet(a)
    ELSE IF a.overlay # NoOverlay THEN handleOverlayKey(a, key)
    ELSE IF Len(a.viewStack) > 0 THEN handleStackKey(a, key, env)
    ELSE IF ActiveTabOK(a) /\ isFocused(ActiveTab(a).quickFilter) THEN handleFilterKey(a, key)
    ELSE handleTabKey(a, key, env)

-----------------------------------------------------------------------------
(* App: Update *)

NoErr == <<>>
Dec(a) == [a EXCEPT !.inflight = @ - 1]

onWindowSize(a) ==
    Ret([a EXCEPT !.tabs = [i \in 1..Len(a.tabs) |-> setSize(a.tabs[i])]], <<>>)

\* env.userCache: what config.LoadUserCache reads from disk
onConnStatus(a0, msg, env) ==
    LET a == [Dec(a0) EXCEPT !.checking = FALSE]
    IN  IF msg.err # NoErr THEN Ret([a EXCEPT !.connErr = TRUE], <<>>)
        ELSE LET a1 == [a EXCEPT !.user = TRUE, !.connected = TRUE,
                                 !.cachedUsers = env.userCache,
                                 !.inflight = @ + Len(a.tabs)]
             IN  Ret(a1, loadAllTabs(a1))

\* a tabDataMsg handler that gives the result to the tab the user looks at
onTabData_ActiveTab(a0, msg) ==
    LET a == Dec(a0)
    IN  IF msg.tabIndex >= 0 /\ msg.tabIndex < Len(a.tabs)
        THEN IF msg.err # NoErr
             THEN Ret([a EXCEPT !.tabs[a.activeTab + 1] = setError(@, msg.err)], <<>>)
             ELSE Ret([a EXCEPT !.tabs[a.activeTab + 1] = setIssues(@, msg.issues)], <<>>)
        ELSE Ret(a, <<>>)

onTabData(a0, msg) ==
    LET a == Dec(a0)
    IN  IF msg.tabIndex >= 0 /\ msg.tabIndex < Len(a.tabs)
        THEN IF msg.err # NoErr
             THEN Ret([a EXCEPT !.tabs[msg.tabIndex + 1] = setError(@, msg.err)], <<>>)
             ELSE Ret([a EXCEPT !.tabs[msg.tabIndex + 1] = setIssues(@, msg.issues)], <<>>)
        ELSE Ret(a, <<>>)

onIssueUpdated(a0, msg) ==
    LET a == [Dec(a0) EXCEPT !.flash = <<>>]
    IN  IF msg.err # NoErr THEN Ret(SetFlash(a, msg.err, TRUE), <<>>)
        ELSE Ret(SetFlash(applyIssueUpdate(a, msg.issueKey, msg.issue),
                          msg.issueKey \o <<"updated">>, FALSE), <<>>)

\* an issueDetailMsg handler that fetches the record again when the fetch
\* failed
onIssueDetail_RetriesOnError(a0, msg) ==
    LET a == Dec(a0)
    IN  IF msg.err # NoErr
        THEN LET a1 == SetFlash(a, <<"Failed to load">> \o msg.issueKey \o msg.err, TRUE)
                 sn == startNetwork(IF TopShows(a1, msg.issueKey)
                                    THEN SetTop(a1, [Top(a1) EXCEPT !.loading = FALSE])
                                    ELSE a1,
                                    cmdFetchIssue(a1, msg.issueKey))
             IN  Ret(sn.app, sn.cmd)
        ELSE LET a1 == applyIssueUpdate(a, msg.issueKey, msg.issue)
             IN  IF TopShows(a1, msg.issueKey)
                 THEN Ret(SetTop(a1, [Top(a1) EXCEPT !.issue = msg.issue,
                                                    !.loading = FALSE]), <<>>)
                 ELSE Ret(a1, <<>>)

\* an issueDetailMsg handler that shows the empty record of a failed fetch
onIssueDetail_ErrorDiscards(a0, msg) ==
    LET a == Dec(a0)
    IN  IF msg.err # NoErr
        THEN LET a1 == SetFlash(a, <<"Failed to load">> \o msg.issueKey \o msg.err, TRUE)
             IN  IF TopShows(a1, msg.issueKey)
                 THEN Ret(SetTop(a1, [Top(a1) EXCEPT !.issue = msg.issue,
                                                    !.loading = FALSE]), <<>>)
                 ELSE Ret(a1, <<>>)
        ELSE LET a1 == applyIssueUpdate(a, msg.issueKey, msg.issue)
             IN  IF TopShows(a1, msg.issueKey)
                 THEN Ret(SetTop(a1, [Top(a1) EXCEPT !.issue = msg.issue,
                                                    !.loading = FALSE]), <<>>)
                 ELSE Ret(a1, <<>>)

onIssueDetail(a0, msg) ==
    LET a == Dec(a0)
    IN  IF msg.err # NoErr
        THEN LET a1 == SetFlash(a, <<"Failed to load">> \o msg.issueKey \o msg.err, TRUE)
             IN  IF TopShows(a1, msg.issueKey)
                 THEN Ret(SetTop(a1, [Top(a1) EXCEPT !.loading = FALSE]), <<>>)
                 ELSE Ret(a1, <<>>)
        ELSE LET a1 == applyIssueUpdate(a, msg.issueKey, msg.issue)
             IN  IF TopShows(a1, msg.issueKey)
                 THEN Ret(SetTop(a1, [Top(a1) EXCEPT !.issue = msg.issue,
                                                    !.loading = FALSE]), <<>>)
                 ELSE Ret(a1, <<>>)

\* a commentsLoadedMsg handler that gives the comments to the view on top,
\* whatever record it shows
onCommentsLoaded_Topmost(a0, msg) ==
    LET a == Dec(a0)
    IN  IF Depth(a) = 0 THEN Ret(a, <<>>)
        ELSE IF msg.err # NoErr
        THEN Ret(SetTop(a, [Top(a) EXCEPT !.commentsLoading = FALSE]), <<>>)
        ELSE Ret(SetTop(a, [Top(a) EXCEPT !.comments = msg.comments,
                                          !.commentsLoading = FALSE]), <<>>)

\* a commentsLoadedMsg handler that fills the comments in only after the full
\* record arrived
onCommentsLoaded_AfterRecord(a0, msg) ==
    LET a == Dec(a0)
    IN  IF ~TopShows(a, msg.issueKey) \/ Top(a).loading THEN Ret(a, <<>>)
        ELSE IF msg.err # NoErr
        THEN Ret(SetTop(a, [Top(a) EXCEPT !.commentsLoading = FALSE]), <<>>)
        ELSE Ret(SetTop(a, [Top(a) EXCEPT !.comments = msg.comments,
                                          !.commentsLoading = FALSE]), <<>>)

onCommentsLoaded(a0, msg) ==
    LET a == Dec(a0)
    IN  IF ~TopShows(a, msg.issueKey) THEN Ret(a, <<>>)
        ELSE IF msg.err # NoErr
        THEN Ret(SetTop(a, [Top(a) EXCEPT !.commentsLoading = FALSE]), <<>>)
        ELSE Ret(SetTop(a, [Top(a) EXCEPT !.comments = msg.comments,
                                          !.commentsLoading = FALSE]), <<>>)

\* a childrenLoadedMsg handler that reports a failed fetch in the flash
onChildrenLoaded_Flashes(a0, msg) ==
    LET a == Dec(a0)
    IN  IF msg.err # NoErr
        THEN LET a1 == SetFlash(a, msg.err, TRUE)
             IN  IF TopShows(a1, msg.issueKey)
                 THEN Ret(SetTop(a1, [Top(a1) EXCEPT !.childrenLoading = FALSE]), <<>>)
                 ELSE Ret(a1, <<>>)
        ELSE IF ~TopShows(a, msg.issueKey) THEN Ret(a, <<>>)
        ELSE Ret(SetTop(a, [Top(a) EXCEPT !.children = msg.children,
                                          !.childrenLoading = FALSE]), <<>>)

onChildrenLoaded(a0, msg) ==
    LET a == Dec(a0)
    IN  IF ~TopShows(a, msg.issueKey) THEN Ret(a, <<>>)
        ELSE IF msg.err # NoErr
        THEN Ret(SetTop(a, [Top(a) EXCEPT !.childrenLoading = FALSE]), <<>>)
        ELSE Ret(SetTop(a, [Top(a) EXCEPT !.children = msg.children,
                                          !.childrenLoading = FALSE]), <<>>)

onCommentAdded(a0, msg) ==
    LET a == Dec(a0)
        hit == TopShows(a, msg.issueKey) /\ Len(Top(a).comments) > 0
    IN  IF msg.err # NoErr
        THEN LET a1 == SetFlash(a, msg.err, TRUE)
             IN  IF hit
                 THEN Ret(SetTop(a1, [Top(a1) EXCEPT !.comments = Tail(@)]), <<>>)
                 ELSE Ret(a1, <<>>)
        ELSE LET a1 == SetFlash(a, <<"Comment added">>, FALSE)
             IN  IF hit
                 THEN Ret(SetTop(a1, [Top(a1) EXCEPT !.comments[1] = msg.comment]), <<>>)
                 ELSE Ret(a1, <<>>)

onTransitionsLoaded(a0, msg) ==
    LET a == Dec(a0)
    IN  IF msg.err # NoErr THEN Ret(SetFlash(a, msg.err, TRUE), <<>>)
        ELSE Ret([a EXCEPT !.overlay = newSelectionOverlay("Change Status", msg.transitions),
                           !.overlayIssue = msg.issueKey], <<>>)

onPrioritiesLoaded(a0, msg) ==
    LET a == Dec(a0)
    IN  IF msg.err # NoErr THEN Ret(SetFlash(a, msg.err, TRUE), <<>>)
        ELSE Ret([a EXCEPT !.cachedPriorities = msg.priorities,
                           !.overlay = newSelectionOverlay("Change Priority", msg.priorities),
                           !.overlayIssue = msg.issues], <<>>)

onUsersLoaded(a0, msg) ==
    LET a == Dec(a0)
    IN  IF msg.err # NoErr THEN Ret(SetFlash(a, msg.err, TRUE), <<>>)
        ELSE Ret([a EXCEPT !.cachedUsers = msg.users,
                           !.overlay = newSelectionOverlay("Assign To", msg.users)], <<>>)

\* an issueDeletedMsg handler that reloads the active tab after a failed
\* delete, which brings the record back
onIssueDeleted_Reloads(a0, msg) ==
    LET a == Dec(a0)
    IN  IF msg.err # NoErr
        THEN LET a1 == SetFlash(a, <<"Delete failed:">> \o msg.err, TRUE)
                 sn == startNetwork(a1, loadTab(a1, a1.activeTab))
             IN  Ret(sn.app, sn.cmd)
        ELSE Ret(a, <<>>)

onIssueDeleted(a0, msg) ==
    LET a == Dec(a0)
    IN  IF msg.err # NoErr
        THEN Ret(SetFlash(a, <<"Delete failed:">> \o msg.err, TRUE), <<>>)
        ELSE Ret(a, <<>>)

onIssueTypesLoaded(a0, msg) ==
    LET a == Dec(a0)
    IN  IF msg.err # NoErr
        THEN Ret([SetFlash(a, msg.err, TRUE) EXCEPT !.overlay = NoOverlay,
                                                    !.overlayAction = "none"], <<>>)
        ELSE Ret([a EXCEPT !.overlay = newSelectionOverlay("Issue Type", msg.types)], <<>>)

onIssueCreated(a0, msg) ==
    LET a == [Dec(a0) EXCEPT !.flash = <<>>]
    IN  IF msg.err # NoErr THEN Ret(SetFlash(a, msg.err, TRUE), <<>>)
        ELSE LET a1 == [Push(SetFlash(a, <<"Created">> \o msg.issueKey, FALSE),
                             newIssueDetailView(StubIssue(msg.issueKey)))
                           EXCEPT !.inflight = @ + 2]
                 cmds == cmdFetchIssue(a1, msg.issueKey)
                            \o cmdFetchComments(a1, msg.issueKey)
                            \o cmdFetchChildren(a1, msg.issueKey)
             IN  IF a1.connected /\ ActiveTabOK(a1)
                 THEN Ret(a1, cmds \o loadTab(a1, a1.activeTab))
                 ELSE Ret(a1, cmds)

\* a key dispatch that leaves the flash in place
onKey_KeepsFlash(a, msg, env) == handleKey(a, msg.key, env)

onKey(a, msg, env) == handleKey([a EXCEPT !.flash = <<>>], msg.key, env)

Update(a, msg, env) ==
    CASE msg.type = "WindowSizeMsg"        -> onWindowSize(a)
      [] msg.type = "connStatusMsg"        -> onConnStatus(a, msg, env)
      [] msg.type = "tabDataMsg"           -> onTabData(a, msg)
      [] msg.type = "issueUpdatedMsg"      -> onIssueUpdated(a, msg)
      [] msg.type = "issueDetailMsg"       -> onIssueDetail(a, msg)
      [] msg.type = "commentsLoadedMsg"    -> onCommentsLoaded(a, msg)
      [] msg.type = "childrenLoadedMsg"    -> onChildrenLoaded(a, msg)
      [] msg.type = "commentAddedMsg"      -> onCommentAdded(a, msg)
      [] msg.type = "transitionsLoadedMsg" -> onTransitionsLoaded(a, msg)
      [] msg.type = "prioritiesLoadedMsg"  -> onPrioritiesLoaded(a, msg)
      [] msg.type = "usersLoadedMsg"       -> onUsersLoaded(a, msg)
      [] msg.type = "issueDeletedMsg"      -> onIssueDeleted(a, msg)
      [] msg.type = "issueTypesLoadedMsg"  -> onIssueTypesLoaded(a, msg)
      [] msg.type = "issueCreatedMsg"      -> onIssueCreated(a, msg)
      [] msg.type = "KeyMsg"               -> onKey(a, msg, env)

-----------------------------------------------------------------------------
(* Backend: the result message of each dispatched command *)

BackendErr == <<"backend error">>
\* "no 'done' transition available for " + issueKey
NoDoneErr(k) == <<"n", "o", " 'done' transition available for ">> \o k

\* the errors the backend may return for a message type in this environment
Errs(type) == IF type \in scn.errors THEN {BackendErr} ELSE {}
Fetched(k) == {Issue(k, s) : s \in scn.summaries}

\* Transition.To.StatusCategory.Key of the transitions the server offers
StatusCategoryOf(t) == IF t.ID = <<"t2">> THEN "done" ELSE "indeterminate"

\* a mark-done that executes the first transition offered
doneTransition_First(transitions) == IF transitions = <<>> THEN 0 ELSE 1

\* cmdMarkDone: the first transition whose target is in the done category,
\* 0 for none
doneTransition(transitions) ==
    IF \E i \in 1..Len(transitions) : StatusCategoryOf(transitions[i]) = "done"
    THEN CHOOSE i \in 1..Len(transitions) :
            /\ StatusCategoryOf(transitions[i]) = "done"
            /\ \A j \in 1..(i - 1) : StatusCategoryOf(transitions[j]) # "done"
    ELSE 0

\* cmdMarkDone run against a server that offers the given transitions:
\* whether it calls TransitionIssue, and the messages it can return
markDone(issueKey, transitions) ==
    LET d == doneTransition(transitions)
        failed(e) == [type |-> "issueUpdatedMsg", issueKey |-> issueKey,
                      issue |-> StubIssue(issueKey), err |-> e]
    IN  [transitioned |-> d # 0,
         msgs |-> (IF d = 0 THEN {failed(NoDoneErr(issueKey))}
                   ELSE {[type |-> "issueUpdatedMsg", issueKey |-> issueKey,
                          issue |-> i, err |-> NoErr] : i \in Fetched(issueKey)})
                  \cup {failed(e) : e \in Errs("issueUpdatedMsg")}]

\* the commands answered by an issueUpdatedMsg
UpdateCmds == {"cmdMarkDone", "cmdAssignToMe", "cmdTransitionIssue", "cmdUpdateField"}

Msg(type, issueKey, err) == [type |-> type, issueKey |-> issueKey, err |-> err]

Messages(c) ==
    CASE c.type = "checkConnection" ->
            {[type |-> "connStatusMsg", err |-> e] : e \in {NoErr} \cup Errs("connStatusMsg")}
      [] c.type = "loadTab" ->
            {[type |-> "tabDataMsg", tabIndex |-> c.arg[1], issues |-> is, err |-> NoErr] :
                is \in scn.tabResults}
            \cup {[type |-> "tabDataMsg", tabIndex |-> c.arg[1], issues |-> <<>>, err |-> e] :
                e \in Errs("tabDataMsg")}
      [] c.type = "cmdFetchIssue" ->
            {[type |-> "issueDetailMsg", issueKey |-> c.key, issue |-> i, err |-> NoErr] :
                i \in Fetched(c.key)}
            \cup {[type |-> "issueDetailMsg", issueKey |-> c.key,
                   issue |-> StubIssue(c.key), err |-> e] : e \in Errs("issueDetailMsg")}
      [] c.type = "cmdFetchComments" ->
            {[type |-> "commentsLoadedMsg", issueKey |-> c.key, comments |-> cs, err |-> NoErr] :
                cs \in scn.comments}
            \cup {[type |-> "commentsLoadedMsg", issueKey |-> c.key,
                   comments |-> <<>>, err |-> e] : e \in Errs("commentsLoadedMsg")}
      [] c.type = "cmdFetchChildren" ->
            {[type |-> "childrenLoadedMsg", issueKey |-> c.key, children |-> ch, err |-> NoErr] :
                ch \in ChildLists(c.key) \cap scn.children}
            \cup {[type |-> "childrenLoadedMsg", issueKey |-> c.key,
                   children |-> <<>>, err |-> e] : e \in Errs("childrenLoadedMsg")}
      [] c.type = "cmdAddComment" ->
            {[type |-> "commentAddedMsg", issueKey |-> c.key,
              comment |-> [Body |-> c.arg, Created |-> "2025"], err |-> NoErr]}
            \cup {[type |-> "commentAddedMsg", issueKey |-> c.key,
                   comment |-> [Body |-> <<>>, Created |-> ""], err |-> e] :
                    e \in Errs("commentAddedMsg")}
      [] c.type = "cmdMarkDone" ->
            UNION {markDone(c.key, ts).msgs : ts \in scn.transitions}
      [] c.type \in UpdateCmds ->
            {[type |-> "issueUpdatedMsg", issueKey |-> c.key, issue |-> i, err |-> NoErr] :
                i \in Fetched(c.key)}
            \cup {[type |-> "issueUpdatedMsg", issueKey |-> c.key,
                   issue |-> StubIssue(c.key), err |-> e] : e \in Errs("issueUpdatedMsg")}
      [] c.type = "cmdDeleteIssue" ->
            {Msg("issueDeletedMsg", c.key, e) : e \in {NoErr} \cup Errs("issueDeletedMsg")}
      [] c.type = "cmdFetchTransitions" ->
            {[type |-> "transitionsLoadedMsg", issueKey |-> c.key,
              transitions |-> ts, err |-> NoErr] : ts \in scn.transitions}
            \cup {[type |-> "transitionsLoadedMsg", issueKey |-> c.key,
                   transitions |-> <<>>, err |-> e] : e \in Errs("transitionsLoadedMsg")}
      [] c.type = "cmdFetchPriorities" ->
            {[type |-> "prioritiesLoadedMsg", issues |-> c.key,
              priorities |-> PriorityList, err |-> NoErr]}
            \cup {[type |-> "prioritiesLoadedMsg", issues |-> c.key,
                   priorities |-> <<>>, err |-> e] : e \in Errs("prioritiesLoadedMsg")}
      [] c.type = "cmdFetchAndCacheUsers" ->
            {[type |-> "usersLoadedMsg", users |-> UserList, err |-> NoErr]}
            \cup {[type |-> "usersLoadedMsg", users |-> <<>>, err |-> e] :
                    e \in Errs("usersLoadedMsg")}
      [] c.type = "cmdFetchIssueTypes" ->
            {[type |-> "issueTypesLoadedMsg", types |-> IssueTypeList, err |-> NoErr]}
            \cup {[type |-> "issueTypesLoadedMsg", types |-> <<>>, err |-> e] :
                    e \in Errs("issueTypesLoadedMsg")}
      [] c.type = "cmdCreateIssue" ->
            {Msg("issueCreatedMsg", NewKey, NoErr)}
            \cup {Msg("issueCreatedMsg", <<>>, e) : e \in Errs("issueCreatedMsg")}

-----------------------------------------------------------------------------
(* The program: one step per message handled by Update *)

DefaultEnv == [clip |-> TRUE, browser |-> TRUE, userCache |-> <<>>]
KeyEnvs(key) ==
    CASE key \in {"y", "u"} -> {[DefaultEnv EXCEPT !.clip = b] : b \in BOOLEAN}
      [] key = "o"          -> {[DefaultEnv EXCEPT !.browser = b] : b \in BOOLEAN}
      [] OTHER              -> {DefaultEnv}
ConnEnvs == {[DefaultEnv EXCEPT !.userCache = uc] : uc \in scn.userCaches}

KeyMsg(key) == [type |-> "KeyMsg", key |-> key]

\* every key the handlers distinguish
AllKeys ==
    {"ctrl+c", "esc", "enter", "q", "/", "r", "c", "s", "p", "d", "i", "a", "t", "e",
     "delete", "y", "n", "Y", "N", "j", "k", "u", "o", "down", "up", "backspace",
     "ctrl+s", " "} \cup TabDigits

\* a text widget has the focus
TextFocused(a) ==
    \/ a.overlay.kind \in {"selection", "textInput", "textEditor"}
    \/ /\ a.overlay = NoOverlay
       /\ Depth(a) = 0
       /\ ActiveTabOK(a)
       /\ isFocused(ActiveTab(a).quickFilter)
\* the keys the user presses in this environment
OfferedKeys(a) ==
    IF TextFocused(a) THEN scn.text
    ELSE IF Depth(a) > 0 THEN scn.viewKeys
    ELSE scn.keys

RECURSIVE BagOfSeq(_)
BagOfSeq(cmds) ==
    IF cmds = <<>> THEN EmptyBag ELSE SetToBag({Head(cmds)}) (+) BagOfSeq(Tail(cmds))

Outstanding == BagCardinality(pending)

TopComments(a) == IF Depth(a) = 0 THEN 0 ELSE Len(Top(a).comments)

\* the text of the widget that has the focus
FocusedText(a) ==
    CASE a.overlay.kind = "selection"  -> a.overlay.filter
      [] a.overlay.kind = "textInput"  -> a.overlay.input
      [] a.overlay.kind = "textEditor" -> a.overlay.editor
      [] a.overlay.kind = "confirm"    -> <<>>
      [] OTHER -> IF ActiveTabOK(a) THEN ActiveTab(a).quickFilter.input ELSE <<>>

\* the bounds of the model, as conditions on the step that returns r
WithinBounds(r, npending) ==
    /\ Depth(r.app) > Depth(app) => Depth(r.app) <= MaxDepth
    /\ TopComments(r.app) <= MaxComments
    /\ Len(FocusedText(r.app)) > Len(FocusedText(app)) =>
            Len(FocusedText(r.app)) <= MaxText
    /\ BagCardinality(npending) - r.app.inflight <= MaxDrift

Step(r, removed) ==
    LET npending == (pending (-) removed) (+) BagOfSeq(r.cmds)
    IN  /\ WithinBounds(r, npending)
        /\ app' = r.app
        /\ pending' = npending
        /\ exit' = IF r.panic THEN "panic" ELSE IF r.quit THEN "quit" ELSE "running"
        /\ scn' = scn

KeyPress ==
    /\ exit = "running"
    /\ \E key \in OfferedKeys(app) : \E env \in KeyEnvs(key) :
          LET r == Update(app, KeyMsg(key), env)
          IN  /\ r.cmds # <<>> => Outstanding < MaxPending + scn.backlog
              /\ Step(r, EmptyBag)

WindowSize ==
    /\ exit = "running"
    /\ Step(Update(app, [type |-> "WindowSizeMsg"], DefaultEnv), EmptyBag)

\* the result of one outstanding command of the given types is handled
Deliver(types, envs) ==
    \E c \in BagToSet(pending) :
        /\ c.type \in types
        /\ \E m \in Messages(c) : \E env \in envs :
              Step(Update(app, m, env), SetToBag({c}))

ConnStatus ==
    /\ exit = "running"
    /\ Deliver({"checkConnection"}, ConnEnvs)
TabData ==
    /\ exit = "running"
    /\ Deliver({"loadTab"}, {DefaultEnv})
IssueUpdated ==
    /\ exit = "running"
    /\ Deliver(UpdateCmds, {DefaultEnv})
IssueDetail ==
    /\ exit = "running"
    /\ Deliver({"cmdFetchIssue"}, {DefaultEnv})
CommentsLoaded ==
    /\ exit = "running"
    /\ Deliver({"cmdFetchComments"}, {DefaultEnv})
ChildrenLoaded ==
    /\ exit = "running"
    /\ Deliver({"cmdFetchChildren"}, {DefaultEnv})
CommentAdded ==
    /\ exit = "running"
    /\ Deliver({"cmdAddComment"}, {DefaultEnv})
TransitionsLoaded ==
    /\ exit = "running"
    /\ Deliver({"cmdFetchTransitions"}, {DefaultEnv})
PrioritiesLoaded ==
    /\ exit = "running"
    /\ Deliver({"cmdFetchPriorities"}, {DefaultEnv})
UsersLoaded ==
    /\ exit = "running"
    /\ Deliver({"cmdFetchAndCacheUsers"}, {DefaultEnv})
IssueDeleted ==
    /\ exit = "running"
    /\ Deliver({"cmdDeleteIssue"}, {DefaultEnv})
IssueTypesLoaded ==
    /\ exit = "running"
    /\ Deliver({"cmdFetchIssueTypes"}, {DefaultEnv})
IssueCreated ==
    /\ exit = "running"
    /\ Deliver({"cmdCreateIssue"}, {DefaultEnv})

\* NewApp(client) followed by App.Init, which dispatches checkConnection
Start(environment) ==
    /\ app = NewApp(TRUE)
    /\ pending = BagOfSeq(checkConnection(app))
    /\ exit = "running"
    /\ scn = environment

-----------------------------------------------------------------------------
(* Environments and specifications *)

BothRecords == <<Issue(K1, <<"Q">>), Issue(K2, <<"x">>)>>

\* the tab list: quick filter, tab switch, refresh, mark done, delete
ListEnv ==
    [keys |-> {"/", "esc", "2", "j", "d", "delete", "y", "r"},
     viewKeys |-> {"/", "esc", "2", "j", "d", "delete", "y", "r"},
     text |-> {"q", " ", "enter", "esc"},
     tabResults |-> {BothRecords, <<>>},
     summaries |-> {<<"x">>},
     errors |-> {"tabDataMsg"},
     comments |-> {<<>>}, children |-> {<<>>}, transitions |-> TransitionLists,
     userCaches |-> {<<>>}, backlog |-> 0]

Init == Start(ListEnv)

Next ==
    \/ KeyPress
    \/ WindowSize
    \/ ConnStatus
    \/ TabData
    \/ IssueUpdated
    \/ IssueDeleted

Spec == Init /\ [][Next]_vars

\* the overlays of the selected record: status list, title, description,
\* delete confirmation, opened over the list and its quick filter
OverlayEnv ==
    [keys |-> {"/", "s", "t", "e", "delete", "esc"},
     viewKeys |-> {"/", "s", "t", "e", "delete", "esc"},
     text |-> {"q", "enter", "esc", "ctrl+s"},
     tabResults |-> {BothRecords},
     summaries |-> {<<"x">>},
     errors |-> {"issueUpdatedMsg"},
     comments |-> {<<>>}, children |-> {<<>>}, transitions |-> TransitionLists,
     userCaches |-> {<<>>}, backlog |-> 0]

InitOverlay == Start(OverlayEnv)

NextOverlay ==
    \/ KeyPress
    \/ ConnStatus
    \/ TabData
    \/ TransitionsLoaded
    \/ IssueUpdated
    \/ IssueDeleted

SpecOverlay == InitOverlay /\ [][NextOverlay]_vars

\* detail views: open, drill into related records, go back, delete
DetailEnv ==
    [keys |-> {"enter", "esc", "delete", "y"},
     viewKeys |-> {"enter", "esc", "delete", "y"},
     text |-> {"enter", "esc"},
     tabResults |-> {BothRecords},
     summaries |-> {<<"x">>},
     errors |-> {},
     comments |-> {<<>>}, children |-> {<<>>, <<StubIssue(K2)>>},
     transitions |-> {<<>>},
     userCaches |-> {<<>>}, backlog |-> 0]

InitDetail == Start(DetailEnv)

NextDetail ==
    \/ KeyPress
    \/ ConnStatus
    \/ TabData
    \/ IssueDetail
    \/ CommentsLoaded
    \/ ChildrenLoaded
    \/ IssueDeleted

SpecDetail == InitDetail /\ [][NextDetail]_vars

\* key routing: the related-records overlay over detail views over the list
\* and its quick filter
RoutingEnv ==
    [keys |-> {"/", "enter", "esc", "ctrl+c"},
     viewKeys |-> {"/", "enter", "esc", "ctrl+c"},
     text |-> {"q", "enter", "esc", "ctrl+c"},
     tabResults |-> {<<Issue(K2, <<"x">>)>>},
     summaries |-> {<<"x">>},
     errors |-> {},
     comments |-> {<<>>}, children |-> {<<>>},
     transitions |-> {<<>>},
     userCaches |-> {<<>>}, backlog |-> 0]

InitRouting == Start(RoutingEnv)

NextRouting ==
    \/ KeyPress
    \/ WindowSize
    \/ ConnStatus
    \/ TabData
    \/ IssueDetail
    \/ CommentsLoaded
    \/ ChildrenLoaded

SpecRouting == InitRouting /\ [][NextRouting]_vars

\* late results: the user opens a record and drills into its parent while
\* the results of the first view are still outstanding
LateEnv ==
    [keys |-> {"enter", "esc"},
     viewKeys |-> {"enter", "esc"},
     text |-> {"enter", "esc"},
     tabResults |-> {<<Issue(K2, <<"x">>)>>},
     summaries |-> {<<"y">>},
     errors |-> {},
     comments |-> {<<ServerComment>>}, children |-> {<<>>},
     transitions |-> {<<>>},
     userCaches |-> {<<>>}, backlog |-> 3]

InitLate == Start(LateEnv)

NextLate ==
    \/ KeyPress
    \/ ConnStatus
    \/ TabData
    \/ IssueDetail
    \/ CommentsLoaded
    \/ ChildrenLoaded

SpecLate == InitLate /\ [][NextLate]_vars

\* the sections of a detail view: the record, its comments and its children
\* arrive in any order or fail, the user drills into the parent and goes
\* back while results are outstanding
SectionsEnv ==
    [keys |-> {"enter"},
     viewKeys |-> {"enter", "esc"},
     text |-> {"enter", "esc"},
     tabResults |-> {<<Issue(K2, <<"x">>)>>},
     summaries |-> {<<"y">>},
     errors |-> {"issueDetailMsg"},
     comments |-> {<<ServerComment>>}, children |-> {<<>>},
     transitions |-> {<<>>},
     userCaches |-> {<<>>}, backlog |-> 0]

InitSections == Start(SectionsEnv)

NextSections ==
    \/ KeyPress
    \/ ConnStatus
    \/ TabData
    \/ IssueDetail
    \/ CommentsLoaded
    \/ ChildrenLoaded

SpecSections == InitSections /\ [][NextSections]_vars

\* overlay data: the user asks for the assignee list or the status list of
\* one record, moves to the other record and asks again before the first
\* list arrived
AssignEnv ==
    [keys |-> {"a", "s", "j"},
     viewKeys |-> {"a", "s", "j"},
     text |-> {"enter", "esc"},
     tabResults |-> {BothRecords},
     summaries |-> {<<"x">>},
     errors |-> {},
     comments |-> {<<>>}, children |-> {<<>>},
     transitions |-> {<<Item(<<"t1">>, <<"Q">>, <<>>)>>},
     userCaches |-> {<<>>}, backlog |-> 1]

InitAssign == Start(AssignEnv)

NextAssign ==
    \/ KeyPress
    \/ ConnStatus
    \/ TabData
    \/ UsersLoaded
    \/ TransitionsLoaded
    \/ IssueUpdated

SpecAssign == InitAssign /\ [][NextAssign]_vars

\* mark done from the list and from a detail view, on a server that offers
\* no transition, only transitions that do not lead to done, or one that does
DoneEnv ==
    [keys |-> {"d", "enter"},
     viewKeys |-> {"d", "esc"},
     text |-> {"esc"},
     tabResults |-> {BothRecords},
     summaries |-> {<<"x">>},
     errors |-> {},
     comments |-> {<<>>}, children |-> {<<>>},
     transitions |-> TransitionLists \cup {<<Item(<<"t1">>, <<"Q">>, <<>>)>>},
     userCaches |-> {<<>>}, backlog |-> 0]

InitDone == Start(DoneEnv)

NextDone ==
    \/ KeyPress
    \/ ConnStatus
    \/ TabData
    \/ IssueUpdated
    \/ IssueDetail
    \/ CommentsLoaded
    \/ ChildrenLoaded

SpecDone == InitDone /\ [][NextDone]_vars

\* delete from the list and from a detail view, on a server that may refuse
\* the delete
DeleteEnv ==
    [keys |-> {"delete", "y", "n", "enter"},
     viewKeys |-> {"delete", "y", "esc"},
     text |-> {"esc"},
     tabResults |-> {BothRecords},
     summaries |-> {<<"x">>},
     errors |-> {"issueDeletedMsg"},
     comments |-> {<<>>}, children |-> {<<>>},
     transitions |-> {<<>>},
     userCaches |-> {<<>>}, backlog |-> 0]

InitDelete == Start(DeleteEnv)

NextDelete ==
    \/ KeyPress
    \/ ConnStatus
    \/ TabData
    \/ IssueDeleted
    \/ IssueDetail
    \/ CommentsLoaded
    \/ ChildrenLoaded

SpecDelete == InitDelete /\ [][NextDelete]_vars

\* tab switching: the user filters a tab, refreshes it or marks a record
\* done, switches to another tab with a digit key and comes back
SwitchEnv ==
    [keys |-> {"/", "1", "2", "3", "r", "d"},
     viewKeys |-> {"esc"},
     text |-> {"2", "enter"},
     tabResults |-> {BothRecords},
     summaries |-> {<<"y">>},
     errors |-> {},
     comments |-> {<<>>}, children |-> {<<>>},
     transitions |-> {<<Item(<<"t2">>, <<"x">>, <<>>)>>},
     userCaches |-> {<<>>}, backlog |-> 0]

InitSwitch == Start(SwitchEnv)

NextSwitch ==
    \/ KeyPress
    \/ WindowSize
    \/ ConnStatus
    \/ TabData
    \/ IssueUpdated

SpecSwitch == InitSwitch /\ [][NextSwitch]_vars

\* the quick filter on its own (filter.go): app is one issueFilter, the run
\* fixes the record list and the column list it works on, and the steps are
\* the calls the tab makes on it
SeqsUpTo(S, n) == UNION {[1..k -> S] : k \in 0..n}
FilterRecords == {Issue(K1, <<"Q">>), Issue(K2, <<"x">>), Issue(K2, <<"q", "A">>)}
FilterColumns == {<<>>, <<"key">>, <<"summary">>, <<"key", "summary">>, <<"labels", "summary">>}
FilterChars == {"q", "A", " "}

InitFilter ==
    /\ app = newIssueFilter
    /\ pending = EmptyBag
    /\ exit = "running"
    /\ scn \in [issues : SeqsUpTo(FilterRecords, MaxList), columns : FilterColumns]

\* "/" on a tab
FilterActivate ==
    /\ ~isFocused(app)
    /\ app' = activate(app)
    /\ UNCHANGED <<pending, exit, scn>>
\* a key in the focused filter (handleFilterKey): enter confirms, esc
\* clears, a character changes the input and the list is filtered live
FilterKey ==
    /\ isFocused(app)
    /\ \E key \in FilterChars \cup {"enter", "esc"} :
          /\ key \in FilterChars => Len(app.input) < MaxQuery
          /\ app' = CASE key = "enter" -> apply(app, scn.issues, scn.columns)
                      [] key = "esc"   -> clear(app)
                      [] OTHER -> updateQuery([app EXCEPT !.input = TextUpdate(@, key)],
                                              scn.issues, scn.columns)
    /\ UNCHANGED <<pending, exit, scn>>

NextFilter ==
    \/ FilterActivate
    \/ FilterKey

SpecFilter == InitFilter /\ [][NextFilter]_vars

\* the status list and the priority list of a record: the user moves the
\* cursor, types into the filter of the list, deletes again, confirms or
\* cancels
SelectEnv ==
    [keys |-> {"s", "p", "j"},
     viewKeys |-> {"s", "p", "j"},
     text |-> {"q", "x", "backspace", "up", "down", "ctrl+p", "ctrl+n", "enter", "esc"},
     tabResults |-> {BothRecords},
     summaries |-> {<<"x">>},
     errors |-> {},
     comments |-> {<<>>}, children |-> {<<>>},
     transitions |-> {<<Item(<<"t1">>, <<"Q">>, <<>>), Item(<<"t2">>, <<"x">>, <<>>),
                        Item(<<"t3">>, <<"x", "q">>, <<>>)>>},
     userCaches |-> {<<>>}, backlog |-> 0]

InitSelect == Start(SelectEnv)

NextSelect ==
    \/ KeyPress
    \/ ConnStatus
    \/ TabData
    \/ TransitionsLoaded
    \/ PrioritiesLoaded
    \/ IssueUpdated

SpecSelect == InitSelect /\ [][NextSelect]_vars

\* loading: the connection check succeeds or fails, the tabs load, fail to
\* load or come back empty, the user filters, switches tabs, refreshes,
\* opens a record or the delete confirmation while tab data is outstanding
LoadEnv ==
    [keys |-> {"/", "2", "r", "enter", "delete"},
     viewKeys |-> {"esc"},
     text |-> {"q", "enter"},
     tabResults |-> {BothRecords, <<>>},
     summaries |-> {<<"x">>},
     errors |-> {"connStatusMsg", "tabDataMsg"},
     comments |-> {<<>>}, children |-> {<<>>},
     transitions |-> {<<>>},
     userCaches |-> {<<>>}, backlog |-> 0]

InitLoad == Start(LoadEnv)

NextLoad ==
    \/ KeyPress
    \/ ConnStatus
    \/ TabData
    \/ IssueDetail
    \/ CommentsLoaded
    \/ ChildrenLoaded

SpecLoad == InitLoad /\ [][NextLoad]_vars

\* section failures: a record is opened while the backend refuses the record,
\* its comments and its children
SilentEnv ==
    [keys |-> {"enter", "j"},
     viewKeys |-> {"esc"},
     text |-> {"esc"},
     tabResults |-> {BothRecords},
     summaries |-> {<<"y">>},
     errors |-> {"issueDetailMsg", "commentsLoadedMsg", "childrenLoadedMsg"},
     comments |-> {<<ServerComment>>}, children |-> {<<>>, <<StubIssue(K2)>>},
     transitions |-> {<<>>},
     userCaches |-> {<<>>}, backlog |-> 0]

InitSilent == Start(SilentEnv)

NextSilent ==
    \/ KeyPress
    \/ ConnStatus
    \/ TabData
    \/ IssueDetail
    \/ CommentsLoaded
    \/ ChildrenLoaded

SpecSilent == InitSilent /\ [][NextSilent]_vars
\* going back: the user switches tabs, opens a record, drills into its
\* parent and goes back
BackEnv ==
    [keys |-> {"2", "enter"},
     viewKeys |-> {"enter", "esc"},
     text |-> {"enter"},
     tabResults |-> {<<Issue(K2, <<"x">>)>>},
     summaries |-> {<<"x">>},
     errors |-> {},
     comments |-> {<<>>}, children |-> {<<>>},
     transitions |-> {<<>>},
     userCaches |-> {<<>>}, backlog |-> 0]

InitBack == Start(BackEnv)

NextBack ==
    \/ KeyPress
    \/ ConnStatus
    \/ TabData
    \/ IssueDetail
    \/ CommentsLoaded
    \/ ChildrenLoaded

SpecBack == InitBack /\ [][NextBack]_vars
\* with and without a backend: NewApp is given a client or none; App.Init
\* dispatches checkConnection only when there is one. The user uses the
\* create key, the status key and the add-comment key
OfflineEnv ==
    [keys |-> {"c", "s", "enter"},
     viewKeys |-> {"c", "s", "esc"},
     text |-> {"esc"},
     tabResults |-> {<<Issue(K2, <<"x">>)>>},
     summaries |-> {<<"x">>},
     errors |-> {},
     comments |-> {<<>>}, children |-> {<<>>},
     transitions |-> {<<Item(<<"t1">>, <<"Q">>, <<>>)>>},
     userCaches |-> {<<>>}, backlog |-> 0]

InitOffline ==
    /\ \E client \in BOOLEAN : app = NewApp(client)
    /\ pending = IF app.client THEN BagOfSeq(checkConnection(app)) ELSE EmptyBag
    /\ exit = "running"
    /\ scn = OfflineEnv

NextOffline ==
    \/ KeyPress
    \/ ConnStatus
    \/ TabData
    \/ IssueDetail
    \/ CommentsLoaded
    \/ ChildrenLoaded
    \/ TransitionsLoaded

SpecOffline == InitOffline /\ [][NextOffline]_vars
\* comments: the user opens a record and adds a comment while the comments
\* of the record are still being fetched
CommentEnv ==
    [keys |-> {"enter"},
     viewKeys |-> {"c", "esc"},
     text |-> {"q", "ctrl+s"},
     tabResults |-> {<<Issue(K2, <<"x">>)>>},
     summaries |-> {<<"x">>},
     errors |-> {"commentAddedMsg"},
     comments |-> {<<ServerComment>>}, children |-> {<<>>},
     transitions |-> {<<>>},
     userCaches |-> {<<>>}, backlog |-> 1]

InitComment == Start(CommentEnv)

NextComment ==
    \/ KeyPress
    \/ ConnStatus
    \/ TabData
    \/ IssueDetail
    \/ CommentsLoaded
    \/ ChildrenLoaded
    \/ CommentAdded

SpecComment == InitComment /\ [][NextComment]_vars
-----------------------------------------------------------------------------
(* Claims *)

KeysOf(issues) == {issues[i].Key : i \in 1..Len(issues)}
\* the record keys shown by the rows of a tab's table (first column)
RowKeys(t) == {t.table.rows[i][1] : i \in 1..Len(t.table.rows)}
ViewKeys(a) == {a.viewStack[i].issue.Key : i \in 1..Len(a.viewStack)}
Row(issue) == issuesToRows(<<issue>>, Columns)[1]

\* the successful issueUpdatedMsg results that can arrive next
UpdateResults ==
    {m \in UNION {Messages(c) : c \in {c \in BagToSet(pending) : c.type \in UpdateCmds}} :
        m.err = NoErr}
\* the failed ones
UpdateErrors ==
    {m \in UNION {Messages(c) : c \in {c \in BagToSet(pending) : c.type \in UpdateCmds}} :
        m.err # NoErr}

\* the delete confirmation is open
DeleteConfirmOpen ==
    /\ exit = "running"
    /\ app.overlay.kind = "confirm"
    /\ app.overlayAction = "delete"
\* the model right after the confirmation returned yes
AfterDeleteYes == Update(app, KeyMsg("y"), DefaultEnv).app

\* C1: in every reachable state the in-flight counter is >= 0.
C1_InflightNonNegative == app.inflight >= 0

\* C2: in every reachable state the in-flight counter equals the number of
\* commands dispatched whose result message was not handled yet.
C2_InflightCountsOutstanding == app.inflight = Outstanding

\* the action an overlay was built for
BuiltFor(o) ==
    CASE o.kind = "confirm" -> "delete"
      [] o.kind = "selection" /\ o.title = "Change Status"   -> "transition"
      [] o.kind = "selection" /\ o.title = "Change Priority" -> "priority"
      [] o.kind = "selection" /\ o.title = "Assign To"       -> "assignee"
      [] o.kind = "selection" /\ o.title = "Issue Type"      -> "createType"
      [] o.kind = "selection" /\ o.title = "Related Issues"  -> "drillIn"
      [] o.kind = "textInput" /\ o.title = "Edit Title"        -> "title"
      [] o.kind = "textInput" /\ o.title = "New Issue Summary" -> "createSummary"
      [] o.kind = "textEditor" /\ o.title = "Edit Description" -> "description"
      [] o.kind = "textEditor" /\ o.title = "Add Comment"      -> "addComment"
      [] OTHER -> "none"

\* C3: whenever an overlay is active, overlayAction is not none and is the
\* action the overlay was built for, and handling an overlay result never
\* fails on a result of the wrong type.
C3_OverlayPairedWithAction ==
    /\ app.overlay # NoOverlay =>
          /\ app.overlayAction # "none"
          /\ app.overlayAction = BuiltFor(app.overlay)
    /\ exit # "panic"

\* C4: right after the delete confirmation returns yes for record K, K is in
\* no tab's record list and in no tab's visible table rows, whatever the
\* state of the tab's quick filter.
C4_DeleteRemovesFromEveryTab ==
    DeleteConfirmOpen =>
        \A i \in 1..Len(app.tabs) :
            LET t == AfterDeleteYes.tabs[i]
            IN  /\ app.overlayIssue \notin KeysOf(t.issues)
                /\ t.state = "ready" => app.overlayIssue \notin RowKeys(t)

\* C5: right after the delete confirmation for record K, no detail view on
\* the view stack shows K, at any depth of the stack.
C5_DeleteRemovesFromViewStack ==
    DeleteConfirmOpen => app.overlayIssue \notin ViewKeys(AfterDeleteYes)

\* C6: after a successful issueUpdatedMsg for key K carrying record R every
\* copy of K equals R: in each tab's record list, in each tab's visible rows
\* and in every detail view on the stack whose record key is K.
C6_UpdateReplacesEveryCopy ==
    exit = "running" =>
        \A m \in UpdateResults :
            LET a == Update(app, m, DefaultEnv).app
            IN  /\ \A i \in 1..Len(a.tabs) :
                      LET t == a.tabs[i]
                      IN  /\ \A j \in 1..Len(t.issues) :
                                t.issues[j].Key = m.issueKey => t.issues[j] = m.issue
                          /\ t.state = "ready" =>
                                \A j \in 1..Len(t.table.rows) :
                                    t.table.rows[j][1] = m.issueKey =>
                                        t.table.rows[j] = Row(m.issue)
                /\ \A i \in 1..Len(a.viewStack) :
                      a.viewStack[i].issue.Key = m.issueKey =>
                          a.viewStack[i].issue = m.issue

\* C7: a successful record update for key K leaves each tab's table cursor
\* on the record, identified by key, that it pointed at before, also when
\* the user moved the cursor while the command was in flight.
C7_UpdateKeepsCursorRecord ==
    exit = "running" =>
        \A m \in UpdateResults :
            LET a == Update(app, m, DefaultEnv).app
            IN  \A i \in 1..Len(app.tabs) :
                    HasSelection(app.tabs[i]) =>
                        /\ HasSelection(a.tabs[i])
                        /\ selectedIssue(a.tabs[i]).Key = selectedIssue(app.tabs[i]).Key

\* every record copy the model holds: the tabs' lists and rows, the views
Copies(a) ==
    <<[i \in 1..Len(a.tabs) |-> a.tabs[i].issues],
      [i \in 1..Len(a.tabs) |-> a.tabs[i].table.rows],
      [i \in 1..Len(a.viewStack) |-> a.viewStack[i].issue]>>

EditActions == {"transition", "priority", "assignee", "title", "description"}
OtherKeys == AllKeys \ {"ctrl+c"}

\* C8: confirming a status, priority, assignee, title or description overlay
\* dispatches the backend command and changes no record copy; an
\* issueUpdatedMsg with an error changes no record copy either.
C8_EditsChangeNothingLocally ==
    exit = "running" =>
        /\ BuiltFor(app.overlay) \in EditActions =>
              \A key \in OtherKeys :
                  LET o == overlay_Update(app.overlay, key)
                      r == Update(app, KeyMsg(key), DefaultEnv)
                  IN  (o.isDone /\ o.result # Nil) =>
                          /\ ~r.panic
                          /\ Len(r.cmds) = 1
                          /\ r.cmds[1].type \in {"cmdTransitionIssue", "cmdUpdateField"}
                          /\ Copies(r.app) = Copies(app)
        /\ \A m \in UpdateErrors : Copies(Update(app, m, DefaultEnv).app) = Copies(app)

\* C9: while an overlay is active a key other than ctrl+c goes to the overlay
\* only: it never quits, and unless it completes the overlay it leaves the
\* tabs with their records and filters, the active tab and the view stack
\* unchanged.
C9_OverlayAbsorbsKeys ==
    (exit = "running" /\ app.overlay # NoOverlay) =>
        \A key \in OtherKeys : \A env \in KeyEnvs(key) :
            LET o == overlay_Update(app.overlay, key)
                r == Update(app, KeyMsg(key), env)
            IN  /\ ~r.quit
                /\ ~o.isDone =>
                      /\ r.app.overlay = o
                      /\ r.cmds = <<>>
                      /\ r.app.tabs = app.tabs
                      /\ r.app.activeTab = app.activeTab
                      /\ r.app.viewStack = app.viewStack

\* the 'q' key was typed into an open selection overlay and the program runs
C9_Witness ==
    /\ exit = "running"
    /\ app.overlay.kind = "selection"
    /\ app.overlay.filter = <<"q">>

\* the target of a key by the precedence of handleKey
Target(a) ==
    IF a.overlay # NoOverlay THEN "overlay"
    ELSE IF Depth(a) > 0 THEN "view"
    ELSE IF ActiveTabOK(a) /\ isFocused(ActiveTab(a).quickFilter) THEN "filter"
    ELSE "tab"

\* the step from a to r.app did what only a tab-level key does
TabLevelAction(a, r) ==
    \/ r.app.activeTab # a.activeTab
    \/ \E i \in 1..Len(r.cmds) : r.cmds[i].type = "loadTab"
    \/ \E i \in 1..Len(a.tabs) :
          isFocused(r.app.tabs[i].quickFilter) /\ ~isFocused(a.tabs[i].quickFilter)
    \/ BuiltFor(r.app.overlay) = "createSummary"
    \/ Depth(a) = 0 /\ Depth(r.app) > 0

\* C10: a key other than ctrl+c is handled by one target, chosen by the
\* precedence overlay, view stack, focused filter, tab level: tab-level
\* actions happen only at tab level, a view's key leaves the tabs alone and
\* acts on the view's record, a filter key changes nothing but the active
\* tab, and 'q' and digits typed into the focused filter are appended to its
\* text without quitting or switching tabs.
C10_KeyRoutingPrecedence ==
    exit = "running" =>
        \A key \in OtherKeys : \A env \in KeyEnvs(key) :
            LET r == Update(app, KeyMsg(key), env)
                target == Target(app)
            IN  /\ TabLevelAction(app, r) => target = "tab"
                /\ target = "overlay" =>
                      LET o == overlay_Update(app.overlay, key)
                      IN  r.app.overlay = IF o.isDone THEN NoOverlay ELSE o
                /\ target = "view" =>
                      /\ r.app.tabs = app.tabs
                      /\ \A i \in 1..Len(r.cmds) :
                            r.cmds[i].key \in {Top(app).issue.Key, NoKey}
                /\ target = "filter" =>
                      /\ r.cmds = <<>>
                      /\ ~r.quit
                      /\ r.app.viewStack = app.viewStack
                      /\ r.app.overlay = app.overlay
                      /\ \A i \in 1..Len(app.tabs) :
                            i # app.activeTab + 1 => r.app.tabs[i] = app.tabs[i]
                      /\ key \in {"q"} \cup TabDigits =>
                            ActiveTab(r.app).quickFilter.input =
                                Append(ActiveTab(app).quickFilter.input, key)

\* 'q' was typed into the focused quick filter and the program runs
C10_Witness ==
    /\ exit = "running"
    /\ Target(app) = "filter"
    /\ ActiveTab(app).quickFilter.input = <<"q">>

\* C11: in every state (overlay active, detail view on the stack, quick
\* filter focused, plain tab list) handling ctrl+c returns the quit command
\* and leaves the overlay, the view stack and the tabs as they are.
C11_CtrlCAlwaysQuits ==
    exit = "running" =>
        LET r == Update(app, KeyMsg("ctrl+c"), DefaultEnv)
        IN  /\ r.quit
            /\ ~r.panic
            /\ r.cmds = <<>>
            /\ r.app.overlay = app.overlay
            /\ r.app.viewStack = app.viewStack
            /\ r.app.tabs = app.tabs

\* the program has quit while an overlay was open over a detail view
C11_Witness ==
    /\ exit = "quit"
    /\ app.overlay # NoOverlay
    /\ Depth(app) > 0

\* the result messages that can arrive next
PendingMessages == UNION {Messages(c) : c \in BagToSet(pending)}

\* C12: a detail view's dirty flag becomes true only when an issueUpdatedMsg
\* without error for its key is handled; no key sets it, a pushed view is not
\* dirty, and closing a view after its initial full-record fetch arrived
\* dispatches no re-fetch.
C12_DirtyOnlyAfterEdit ==
    exit = "running" =>
        /\ \A m \in PendingMessages :
              LET a == Update(app, m, DefaultEnv).app
              IN  \A i \in 1..Min(Depth(app), Depth(a)) :
                      (a.viewStack[i].dirty /\ ~app.viewStack[i].dirty) =>
                          /\ m.type = "issueUpdatedMsg"
                          /\ m.err = NoErr
                          /\ m.issueKey = app.viewStack[i].issue.Key
        /\ \A key \in OtherKeys :
              LET a == Update(app, KeyMsg(key), DefaultEnv).app
              IN  /\ \A i \in 1..Min(Depth(app), Depth(a)) :
                        a.viewStack[i].dirty = app.viewStack[i].dirty
                  /\ Depth(a) > Depth(app) => ~Top(a).dirty
        /\ (Depth(app) > 0 /\ ~Top(app).dirty /\ app.overlay = NoOverlay) =>
              \A m \in PendingMessages :
                  (m.type = "issueDetailMsg" /\ m.issueKey = Top(app).issue.Key) =>
                      LET a == Update(app, m, DefaultEnv).app
                      IN  Update(a, KeyMsg("esc"), DefaultEnv).cmds = <<>>

\* C13: the back key with a non-empty view stack and no overlay removes
\* exactly the top view, dispatches exactly one fetch-record command for that
\* view's key if the view was dirty and the app is connected and no command
\* otherwise, and changes no tab (load state, record list, rows, cursor).
C13_BackPopsTopView ==
    (exit = "running" /\ Depth(app) > 0 /\ app.overlay = NoOverlay) =>
        LET r == Update(app, KeyMsg("esc"), DefaultEnv)
            dv == Top(app)
        IN  /\ ~r.quit
            /\ ~r.panic
            /\ r.app.viewStack = SubSeq(app.viewStack, 1, Depth(app) - 1)
            /\ r.cmds = IF dv.dirty /\ app.connected
                        THEN <<Cmd("cmdFetchIssue", dv.issue.Key, <<>>)>>
                        ELSE <<>>
            /\ r.app.tabs = app.tabs

\* a dirty view was closed: no view is left and the only outstanding command
\* is the re-fetch of its record, which the back key dispatched uncounted
C13_Witness ==
    /\ exit = "running"
    /\ Depth(app) = 0
    /\ app.inflight = 0
    /\ \E k \in IssueKeys : pending = SetToBag({Cmd("cmdFetchIssue", k, <<>>)})

\* the open key is pressed on the tab list with a record selected
CanOpen(a) ==
    /\ a.client
    /\ Target(a) = "tab"
    /\ ActiveTabOK(a)
    /\ HasSelection(ActiveTab(a))

\* C14: with a backend client, the open key on the tab list with record K
\* selected pushes in that one step exactly one detail view that holds the
\* tab's copy of K with loading, commentsLoading and childrenLoading true,
\* and dispatches exactly three commands, fetch record, fetch comments and
\* fetch children, each keyed by K.
C14_OpenPushesLoadingView ==
    (exit = "running" /\ CanOpen(app)) =>
        LET r == Update(app, KeyMsg("enter"), DefaultEnv)
            issue == selectedIssue(ActiveTab(app))
        IN  /\ ~r.quit
            /\ ~r.panic
            /\ Depth(r.app) = Depth(app) + 1
            /\ SubSeq(r.app.viewStack, 1, Depth(app)) = app.viewStack
            /\ Top(r.app).issue = issue
            /\ Top(r.app).loading
            /\ Top(r.app).commentsLoading
            /\ Top(r.app).childrenLoading
            /\ Len(r.cmds) = 3
            /\ {r.cmds[i].type : i \in 1..3} =
                    {"cmdFetchIssue", "cmdFetchComments", "cmdFetchChildren"}
            /\ \A i \in 1..3 : r.cmds[i].key = issue.Key

\* a detail view was just opened from the list: all three sections load and
\* the three fetches of its record are outstanding
C14_Witness ==
    /\ exit = "running"
    /\ Depth(app) = 1
    /\ Top(app).loading /\ Top(app).commentsLoading /\ Top(app).childrenLoading
    /\ Top(app).issue \in {ActiveTab(app).issues[i] : i \in 1..Len(ActiveTab(app).issues)}
    /\ pending = BagOfSeq(<<Cmd("cmdFetchIssue", Top(app).issue.Key, <<>>),
                            Cmd("cmdFetchComments", Top(app).issue.Key, <<>>),
                            Cmd("cmdFetchChildren", Top(app).issue.Key, <<>>)>>)

\* C15: when an issueDetailMsg for key K carries an error and the top detail
\* view shows K, the view keeps its record (and comments and children), its
\* loading flag becomes false, an error flash is set, and the view stack
\* keeps its views.
C15_FailedFetchKeepsPartialData ==
    exit = "running" =>
        \A m \in PendingMessages :
            (m.type = "issueDetailMsg" /\ m.err # NoErr /\ TopShows(app, m.issueKey)) =>
                LET r == Update(app, m, DefaultEnv)
                IN  /\ ~r.quit
                    /\ ~r.panic
                    /\ r.cmds = <<>>
                    /\ Depth(r.app) = Depth(app)
                    /\ r.app.viewStack = [app.viewStack EXCEPT ![Depth(app)].loading = FALSE]
                    /\ r.app.flashIsErr
                    /\ r.app.flash # <<>>
                    /\ r.app.tabs = app.tabs

\* the full-record fetch of the shown record failed: the view still shows
\* the summary known from the list, no longer loads, and the error is flashed
C15_Witness ==
    /\ exit = "running"
    /\ Depth(app) > 0
    /\ ~Top(app).loading
    /\ Top(app).issue.Summary # <<>>
    /\ app.flashIsErr
    /\ app.flash = <<"Failed to load">> \o Top(app).issue.Key \o BackendErr

\* the loading flag of a view that a result message of the given type clears
LoadingFlag(v, type) ==
    CASE type = "issueDetailMsg"    -> v.loading
      [] type = "commentsLoadedMsg" -> v.commentsLoading
      [] type = "childrenLoadedMsg" -> v.childrenLoading

SectionResults == {"issueDetailMsg", "commentsLoadedMsg", "childrenLoadedMsg"}

\* C16: for every detail view on the stack, at any depth, handling the
\* full-record, comments or children result for its key makes the view's
\* loading, commentsLoading or childrenLoading flag false, and no later key or
\* message makes a flag of a view true again.
C16_ResultClearsLoadingFlag ==
    exit = "running" =>
        /\ \A m \in PendingMessages :
              m.type \in SectionResults =>
                  LET a == Update(app, m, DefaultEnv).app
                  IN  \A i \in 1..Min(Depth(app), Depth(a)) :
                          app.viewStack[i].issue.Key = m.issueKey =>
                              ~LoadingFlag(a.viewStack[i], m.type)
        /\ \A m \in PendingMessages \cup {KeyMsg(key) : key \in OtherKeys} :
              LET a == Update(app, m, DefaultEnv).app
              IN  \A i \in 1..Min(Depth(app), Depth(a)) : \A type \in SectionResults :
                      ~LoadingFlag(app.viewStack[i], type) =>
                          ~LoadingFlag(a.viewStack[i], type)

\* the outstanding results of one type for record k
PendingResults(type, k) ==
    {m \in PendingMessages : m.type = type /\ m.issueKey = k}

Orders3 ==
    {<<1, 2, 3>>, <<1, 3, 2>>, <<2, 1, 3>>, <<2, 3, 1>>, <<3, 1, 2>>, <<3, 2, 1>>}

\* the model after the three messages ms were handled in the order p
After3(a, ms, p) ==
    LET a1 == Update(a, ms[p[1]], DefaultEnv).app
        a2 == Update(a1, ms[p[2]], DefaultEnv).app
    IN  Update(a2, ms[p[3]], DefaultEnv).app

\* C17: for the detail view on top of the stack, showing K, with its three
\* results outstanding, the model (the view, the tabs and everything else)
\* after the full-record, comments and children results were handled is
\* the same for all six arrival orders.
C17_SectionResultsCommute ==
    (exit = "running" /\ Depth(app) > 0) =>
        LET k == Top(app).issue.Key
        IN  \A m1 \in PendingResults("issueDetailMsg", k) :
            \A m2 \in PendingResults("commentsLoadedMsg", k) :
            \A m3 \in PendingResults("childrenLoadedMsg", k) :
            \A p \in Orders3 :
                After3(app, <<m1, m2, m3>>, p) = After3(app, <<m1, m2, m3>>, <<1, 2, 3>>)

\* the three results of the top view arrived: it shows the fetched record and
\* its comments, nothing loads and nothing is outstanding
C17_Witness ==
    /\ exit = "running"
    /\ Depth(app) > 0
    /\ ~Top(app).loading /\ ~Top(app).commentsLoading /\ ~Top(app).childrenLoading
    /\ Top(app).issue.Summary = <<"y">>
    /\ Top(app).comments = <<ServerComment>>
    /\ pending = EmptyBag

\* the results keyed by record k that the backend can return for a fetch of
\* the record, its comments or its children or for an added comment, each
\* also as a failure
ResultsKeyedBy(k) ==
    LET ok == UNION {Messages(Cmd(type, k, <<"q">>)) :
                        type \in {"cmdFetchIssue", "cmdFetchComments",
                                  "cmdFetchChildren", "cmdAddComment"}}
    IN  ok \cup {[m EXCEPT !.err = BackendErr] : m \in ok}

\* the records of a tab whose key is not k
OtherRecords(t, k) == [j \in 1..Len(t.issues) |-> IF t.issues[j].Key = k THEN <<>> ELSE t.issues[j]]

FetchHotkeys == {"s", "p", "a"}

\* C19: a hotkey for status, priority or assignee is pressed on the selected
\* record K and the list is fetched; the user moves to another record and
\* presses an edit hotkey there before the list arrives; when the list
\* arrives and the overlay it opens is confirmed, exactly one command is
\* dispatched and it changes K.
C19_OverlayResultAppliesToOrigin ==
    (/\ exit = "running"
     /\ pending = EmptyBag
     /\ Target(app) = "tab"
     /\ ActiveTabOK(app)
     /\ HasSelection(ActiveTab(app))) =>
        LET K == selectedIssue(ActiveTab(app)).Key
        IN  \A h \in FetchHotkeys \cap scn.keys :
            \A h2 \in editHotkeys \cap scn.keys :
                LET r1 == Update(app, KeyMsg(h), DefaultEnv)
                    a2 == Update(r1.app, KeyMsg("j"), DefaultEnv).app
                    a3 == Update(a2, KeyMsg(h2), DefaultEnv).app
                IN  (/\ Len(r1.cmds) = 1
                     /\ HasSelection(ActiveTab(a2))
                     /\ selectedIssue(ActiveTab(a2)).Key # K) =>
                        \A m \in Messages(r1.cmds[1]) :
                            LET a4 == Update(a3, m, DefaultEnv).app
                                r5 == Update(a4, KeyMsg("enter"), DefaultEnv)
                            IN  (/\ m.err = NoErr
                                 /\ a4.overlay.kind = "selection"
                                 /\ Len(a4.overlay.filtered) > 0) =>
                                    /\ ~r5.panic
                                    /\ Len(r5.cmds) = 1
                                    /\ r5.cmds[1].type \in {"cmdTransitionIssue", "cmdUpdateField"}
                                    /\ r5.cmds[1].key = K

\* none of the transitions leads to a status of the done category
NoneDone(transitions) ==
    \A i \in 1..Len(transitions) : StatusCategoryOf(transitions[i]) # "done"

\* C20: when mark-done was used on record K and none of K's transitions
\* leads to the done category, the command executes no transition, and
\* handling its result changes no local copy of K (no tab list, no row, no
\* detail view) and sets an error flash whose text contains "no" and K.
C20_MarkDoneWithoutDoneTransition ==
    exit = "running" =>
        \A c \in BagToSet(pending) :
            c.type = "cmdMarkDone" =>
                \A ts \in scn.transitions :
                    NoneDone(ts) =>
                        LET run == markDone(c.key, ts)
                        IN  /\ ~run.transitioned
                            /\ run.msgs # {}
                            /\ \A m \in run.msgs :
                                  LET r == Update(app, m, DefaultEnv)
                                  IN  /\ ~r.panic
                                      /\ r.cmds = <<>>
                                      /\ Copies(r.app) = Copies(app)
                                      /\ r.app.viewStack = app.viewStack
                                      /\ r.app.flashIsErr
                                      /\ Contains(r.app.flash, <<"n", "o">>)
                                      /\ Contains(r.app.flash, c.key)

\* the result of a mark-done on a record without a done transition was
\* handled while the record's detail view is open: the error is flashed
C20_Witness ==
    /\ exit = "running"
    /\ Depth(app) > 0
    /\ app.flashIsErr
    /\ app.flash = NoDoneErr(Top(app).issue.Key)

\* the failed results of the outstanding delete commands
DeleteErrors ==
    {m \in UNION {Messages(c) : c \in {c \in BagToSet(pending) : c.type = "cmdDeleteIssue"}} :
        m.err # NoErr}

\* C21: handling an issueDeletedMsg that carries an error decrements the
\* in-flight counter and sets an error flash, and changes nothing else: no
\* tab gets the removed record back, the view stack is unchanged and no
\* command is dispatched.
C21_FailedDeleteOnlyFlashes ==
    exit = "running" =>
        \A m \in DeleteErrors :
            LET r == Update(app, m, DefaultEnv)
            IN  /\ ~r.panic /\ ~r.quit
                /\ r.cmds = <<>>
                /\ r.app.flashIsErr
                /\ r.app.flash # <<>>
                /\ r.app.tabs = app.tabs
                /\ r.app.viewStack = app.viewStack
                /\ r.app = [app EXCEPT !.inflight = @ - 1,
                                       !.flash = r.app.flash,
                                       !.flashIsErr = TRUE]

\* a delete confirmed in the detail view of A-1 has failed: the view is
\* closed, the error is flashed and A-1 is in no tab
C21_Witness ==
    /\ exit = "running"
    /\ app.flash = <<"Delete failed:">> \o BackendErr
    /\ app.flashIsErr
    /\ Depth(app) = 0
    /\ \A t \in 1..Len(app.tabs) :
          app.tabs[t].state = "ready" /\ KeysOf(app.tabs[t].issues) = {K2}

\* the tab shows its full record list in the original order, unfiltered
Unfiltered(t) ==
    /\ t.quickFilter.state = "inactive"
    /\ t.quickFilter.query = <<>>
    /\ visibleIssues(t.quickFilter, t.issues) = t.issues
    /\ t.state = "ready" => t.table.rows = issuesToRows(t.issues, Columns)

\* the keys are handled by the tab list
AtTabLevel(a) ==
    /\ a.overlay = NoOverlay
    /\ Depth(a) = 0
    /\ ActiveTabOK(a)
    /\ ~isFocused(ActiveTab(a).quickFilter)

\* C22: a digit key that selects an existing tab clears the quick filter of
\* the tab being left (inactive, empty query) and makes the selected tab the
\* active one; every tab that is not the active one is unfiltered, so the tab
\* the user returns to shows its full record list in the original order.
C22_TabSwitchClearsFilter ==
    exit = "running" =>
        /\ \A i \in 1..Len(app.tabs) : i # app.activeTab + 1 => Unfiltered(app.tabs[i])
        /\ AtTabLevel(app) =>
              \A key \in TabDigits :
                  DigitValue(key) - 1 < Len(app.tabs) =>
                      LET r == Update(app, KeyMsg(key), DefaultEnv)
                      IN  /\ ~r.panic /\ ~r.quit /\ r.cmds = <<>>
                          /\ r.app.activeTab = DigitValue(key) - 1
                          /\ Unfiltered(r.app.tabs[app.activeTab + 1])
                          /\ Unfiltered(r.app.tabs[r.app.activeTab + 1])
                          /\ r.app.tabs[app.activeTab + 1].issues = ActiveTab(app).issues

\* A-2 was marked done on a tab filtered down to it (the cursor never left
\* the first row and this user neither cancels a filter nor refreshes while
\* the command is outstanding), the user has switched tabs and is back on
\* the first tab: every tab shows both records again
C22_Witness ==
    /\ exit = "running"
    /\ \E c \in BagToSet(pending) : c.type = "cmdMarkDone" /\ c.key = K2
    /\ app.activeTab = 0
    /\ \A i \in 1..Len(app.tabs) :
          /\ app.tabs[i].state = "ready"
          /\ Len(app.tabs[i].issues) = 2
          /\ app.tabs[i].table.cursor = 0
          /\ Unfiltered(app.tabs[i])

\* the quick filter is inactive with an empty query
FilterReset(t) == t.quickFilter.state = "inactive" /\ t.quickFilter.query = <<>>

\* the successful tab-data results that can arrive next
TabResults ==
    {m \in UNION {Messages(c) : c \in {c \in BagToSet(pending) : c.type = "loadTab"}} :
        m.err = NoErr}

\* C23: whenever a tab's record list is replaced or emptied, by the refresh
\* key that puts the active tab into the loading state or by a tab-data
\* result, the quick filter of that tab is inactive with an empty query
\* immediately afterwards.
C23_ReplacedListResetsFilter ==
    exit = "running" =>
        /\ AtTabLevel(app) /\ app.connected =>
              LET r == Update(app, KeyMsg("r"), DefaultEnv)
              IN  /\ ActiveTab(r.app).state = "loading"
                  /\ ActiveTab(r.app).issues = <<>>
                  /\ FilterReset(ActiveTab(r.app))
        /\ \A m \in TabResults :
              LET r == Update(app, m, DefaultEnv)
              IN  /\ r.app.tabs[m.tabIndex + 1].issues = m.issues
                  /\ FilterReset(r.app.tabs[m.tabIndex + 1])

\* s contains sub, letters compared without regard to case
ContainsFold(s, sub) ==
    \E i \in 0..(Len(s) - Len(sub)) :
        \A k \in 1..Len(sub) : LowerChar(s[i + k]) = LowerChar(sub[k])
\* the positions of the records with a listed column whose value contains Q
Hits(issues, columns, Q) ==
    {i \in 1..Len(issues) :
        \E j \in 1..Len(columns) : ContainsFold(fieldValue(issues[i], columns[j]), Q)}
\* the k-th smallest element of a set of numbers
Nth(S, k) == CHOOSE i \in S : Cardinality({j \in S : j < i}) = k - 1

C25_EmptyConfirmIsClear ==
    LET cleared == clear(app)
    IN  /\ cleared.state = "inactive"
        /\ ~isActive(cleared)
        /\ cleared.query = <<>>
        /\ cleared.input = <<>>
        /\ cleared.filtered = <<>>
        /\ visibleIssues(cleared, scn.issues) = scn.issues
        /\ clear(cleared) = cleared
        /\ isFocused(app) /\ TrimSpace(app.input) = <<>> =>
              /\ apply(app, scn.issues, scn.columns) = cleared
              /\ apply(cleared, scn.issues, scn.columns) = cleared

\* the filter of a list of two records is focused and only blanks were
\* typed, so that the live filter shows both records: enter confirms a
\* whitespace-only query
C25_Witness ==
    /\ isFocused(app)
    /\ app.input = <<" ", " ">>
    /\ app.query = <<>>
    /\ Len(scn.issues) = 2
    /\ app.filtered = scn.issues
    /\ scn.columns = <<"key", "summary">>

\* the keys that cancel an overlay of the given kind
CancelKeys(kind) == IF kind = "confirm" THEN {"esc", "n", "N"} ELSE {"esc"}

\* C26: cancelling an overlay (esc on a selection list, a text input or a
\* text editor; esc or n on a confirmation) closes the overlay, resets the
\* action to none and the target key to empty, dispatches no command and
\* changes no record, tab or view: apart from the flash text, which every
\* key clears, nothing else of the model changes.
C26_CancelOnlyClosesOverlay ==
    exit = "running" /\ app.overlay # NoOverlay =>
        \A key \in CancelKeys(app.overlay.kind) :
            LET r == Update(app, KeyMsg(key), DefaultEnv)
            IN  /\ ~r.panic /\ ~r.quit
                /\ r.cmds = <<>>
                /\ r.app.overlay = NoOverlay
                /\ r.app.overlayAction = "none"
                /\ r.app.overlayIssue = <<>>
                /\ r.app.tabs = app.tabs
                /\ r.app.viewStack = app.viewStack
                /\ r.app = [app EXCEPT !.overlay = NoOverlay,
                                       !.overlayAction = "none",
                                       !.overlayIssue = <<>>,
                                       !.flash = <<>>]

\* the description editor of A-1 is open over the filtered list and the
\* user has typed into it: esc cancels the edit
C26_Witness ==
    /\ exit = "running"
    /\ app.overlay.kind = "textEditor"
    /\ app.overlay.editor = <<"q">>
    /\ app.overlayAction = "description"
    /\ app.overlayIssue = K1
    /\ ActiveTab(app).quickFilter.state = "applied"

\* C27: in a selection list whose filtered set is empty the confirm key does
\* nothing: the overlay stays open and capturing, with its action and target
\* key, and there is neither a result nor a cancellation.
C27_ConfirmOnEmptyListDoesNothing ==
    exit = "running" /\ app.overlay.kind = "selection" /\ app.overlay.filtered = <<>> =>
        LET r == Update(app, KeyMsg("enter"), DefaultEnv)
        IN  /\ ~r.panic /\ ~r.quit
            /\ r.cmds = <<>>
            /\ r.app.overlay = app.overlay
            /\ ~r.app.overlay.isDone
            /\ r.app.overlayAction = app.overlayAction
            /\ r.app.overlayIssue = app.overlayIssue

\* the item matches the filter text of the list
ItemMatches(item, filter) ==
    filter = <<>> \/ ContainsFold(item.Label, filter) \/ ContainsFold(item.Desc, filter)

\* C28: in a selection list the cursor lies within the filtered subset after
\* every keystroke (0 <= cursor < |filtered| when the subset is non-empty, 0
\* when it is empty), the subset is the one of the current filter text, and
\* so the item that confirm returns matches the current filter text.
C28_CursorWithinFiltered ==
    app.overlay.kind = "selection" =>
        LET s == app.overlay
            n == Len(s.filtered)
            done == selectionOverlay_Update(s, "enter")
        IN  /\ n > 0 => 0 <= s.cursor /\ s.cursor < n
            /\ n = 0 => s.cursor = 0
            /\ \A i \in 1..Len(s.items) :
                  ItemMatches(s.items[i], s.filter) <=> \E k \in 1..n : s.filtered[k] = i
            /\ \A k \in 1..(n - 1) : s.filtered[k] < s.filtered[k + 1]
            /\ n > 0 =>
                  /\ done.result = ItemResult(s.items[s.filtered[s.cursor + 1]])
                  /\ ItemMatches(done.result.item, s.filter)

\* "q" was typed into the status list and the cursor is on the second of the
\* two transitions that are left, which is the third of the list
C28_Witness ==
    /\ exit = "running"
    /\ app.overlay.kind = "selection"
    /\ app.overlay.filter = <<"q">>
    /\ app.overlay.filtered = <<1, 3>>
    /\ app.overlay.cursor = 1

\* every tab-data result the handler can be given in this run: the results
\* of the outstanding loads and results for any tab index, in range or not
TabDataMsgs ==
    UNION {Messages(c) : c \in {c \in BagToSet(pending) : c.type = "loadTab"}}
    \cup {[type |-> "tabDataMsg", tabIndex |-> i, issues |-> is, err |-> NoErr] :
            i \in (0 - 1)..Len(app.tabs), is \in scn.tabResults}
    \cup {[type |-> "tabDataMsg", tabIndex |-> i, issues |-> <<>>, err |-> BackendErr] :
            i \in (0 - 1)..Len(app.tabs)}

\* C29: handling a tab-data result for tab index i, success or error,
\* changes only tab i (its load state, records, filter and cursor) and the
\* in-flight counter: every other tab, the active tab index, the view stack
\* and the overlay are unchanged; a result with an index out of range
\* changes no tab.
C29_TabDataOnlyTouchesItsTab ==
    exit = "running" =>
        \A m \in TabDataMsgs :
            LET r == Update(app, m, DefaultEnv)
                inRange == m.tabIndex >= 0 /\ m.tabIndex < Len(app.tabs)
            IN  /\ ~r.panic /\ ~r.quit
                /\ r.cmds = <<>>
                /\ Len(r.app.tabs) = Len(app.tabs)
                /\ \A t \in 1..Len(app.tabs) :
                      t # m.tabIndex + 1 => r.app.tabs[t] = app.tabs[t]
                /\ ~inRange => r.app = Dec(app)
                /\ inRange =>
                      /\ r.app = [Dec(app) EXCEPT !.tabs[m.tabIndex + 1] = r.app.tabs[m.tabIndex + 1]]
                      /\ m.err = NoErr => r.app.tabs[m.tabIndex + 1].issues = m.issues
                      /\ m.err # NoErr => r.app.tabs[m.tabIndex + 1].state = "error"
                /\ r.app.activeTab = app.activeTab
                /\ r.app.viewStack = app.viewStack
                /\ r.app.overlay = app.overlay

\* the second tab failed to load while the delete confirmation of A-1 was
\* open over the filtered first tab: the first tab, its filter and the
\* overlay are as they were
C29_Witness ==
    /\ exit = "running"
    /\ app.activeTab = 0
    /\ app.tabs[1].state = "ready"
    /\ app.tabs[1].quickFilter.state = "applied"
    /\ Len(app.tabs[1].table.rows) = 1
    /\ app.tabs[2].state = "error"
    /\ app.tabs[2].errMsg = BackendErr
    /\ app.overlay.kind = "confirm"
    /\ app.overlayIssue = K1

\* C30: handling a successful connection result marks the app connected and
\* dispatches exactly one load command per configured tab in the same step;
\* handling a failed connection result dispatches no load and leaves every
\* tab in the loading state.
C30_ConnectionLoadsEveryTab ==
    exit = "running" =>
        \A c \in BagToSet(pending) :
            c.type = "checkConnection" =>
                \A m \in Messages(c) : \A env \in ConnEnvs :
                    LET r == Update(app, m, env)
                    IN  /\ ~r.panic /\ ~r.quit
                        /\ m.err = NoErr =>
                              /\ r.app.connected
                              /\ Len(r.cmds) = Len(app.tabs)
                              /\ \A i \in 0..(Len(app.tabs) - 1) :
                                    Cardinality({k \in 1..Len(r.cmds) :
                                        r.cmds[k] = Cmd("loadTab", NoKey, <<i>>)}) = 1
                        /\ m.err # NoErr =>
                              /\ ~r.app.connected
                              /\ r.app.connErr
                              /\ r.cmds = <<>>
                              /\ \A t \in 1..Len(r.app.tabs) : r.app.tabs[t].state = "loading"

\* the connection check has succeeded: the app is connected and one load
\* per tab is outstanding
C30_Witness ==
    /\ exit = "running"
    /\ app.connected
    /\ ~app.checking
    /\ pending = SetToBag({Cmd("loadTab", NoKey, <<i>>) : i \in 0..(Len(app.tabs) - 1)})
    /\ \A t \in 1..Len(app.tabs) : app.tabs[t].state = "loading"

\* C31: after a failed connection check the refresh key re-attempts the
\* connection: it dispatches a backend command, so that a later successful
\* result can make the tabs available.
C31_RefreshRetriesConnection ==
    exit = "running" /\ app.connErr /\ ~app.connected /\ AtTabLevel(app) =>
        LET r == Update(app, KeyMsg("r"), DefaultEnv)
        IN  /\ ~r.panic /\ ~r.quit
            /\ r.cmds # <<>>

\* every result message that carries an error, for every record key and
\* every tab index
ErrorResults ==
    {[type |-> "connStatusMsg", err |-> BackendErr]}
    \cup {[type |-> "tabDataMsg", tabIndex |-> i, issues |-> <<>>, err |-> BackendErr] :
            i \in 0..(Len(app.tabs) - 1)}
    \cup {[type |-> t, issueKey |-> k, issue |-> StubIssue(k), err |-> BackendErr] :
            t \in {"issueDetailMsg", "issueUpdatedMsg"}, k \in IssueKeys}
    \cup {Msg(t, k, BackendErr) : t \in {"issueDeletedMsg", "issueCreatedMsg"}, k \in IssueKeys}
    \cup {[type |-> "commentsLoadedMsg", issueKey |-> k, comments |-> <<>>, err |-> BackendErr] :
            k \in IssueKeys}
    \cup {[type |-> "childrenLoadedMsg", issueKey |-> k, children |-> <<>>, err |-> BackendErr] :
            k \in IssueKeys}
    \cup {[type |-> "commentAddedMsg", issueKey |-> k,
           comment |-> [Body |-> <<>>, Created |-> ""], err |-> BackendErr] : k \in IssueKeys}
    \cup {[type |-> "transitionsLoadedMsg", issueKey |-> k, transitions |-> <<>>,
           err |-> BackendErr] : k \in IssueKeys}
    \cup {[type |-> "prioritiesLoadedMsg", issues |-> k, priorities |-> <<>>,
           err |-> BackendErr] : k \in IssueKeys}
    \cup {[type |-> "usersLoadedMsg", users |-> <<>>, err |-> BackendErr]}
    \cup {[type |-> "issueTypesLoadedMsg", types |-> <<>>, err |-> BackendErr]}

\* C32: no handler of a result message that carries an error dispatches a
\* command, whatever the state the message arrives in: errors are never
\* retried automatically.
C32_ErrorsAreNotRetried ==
    exit = "running" =>
        /\ \A m \in ErrorResults :
              LET r == Update(app, m, DefaultEnv)
              IN  ~r.panic /\ ~r.quit /\ r.cmds = <<>>
        /\ \A c \in BagToSet(pending) : \A m \in Messages(c) :
              m.err # NoErr => Update(app, m, DefaultEnv).cmds = <<>>

\* the delete of A-1 was refused while its record was open in a detail view
\* again: the error is flashed and nothing is outstanding
C32_Witness ==
    /\ exit = "running"
    /\ app.flash = <<"Delete failed:">> \o BackendErr
    /\ pending = EmptyBag
    /\ app.inflight <= 0

\* the failed comments and children results, for every record key
SectionErrors ==
    {[type |-> "commentsLoadedMsg", issueKey |-> k, comments |-> <<>>, err |-> BackendErr] :
        k \in IssueKeys}
    \cup {[type |-> "childrenLoadedMsg", issueKey |-> k, children |-> <<>>, err |-> BackendErr] :
        k \in IssueKeys}

\* the state after a failed section result: the request is no longer counted
\* and, when the topmost view shows the record, its loading flag of that
\* section is cleared
SectionFailed(a, m) ==
    IF ~TopShows(Dec(a), m.issueKey) THEN Dec(a)
    ELSE IF m.type = "commentsLoadedMsg"
    THEN SetTop(Dec(a), [Top(Dec(a)) EXCEPT !.commentsLoading = FALSE])
    ELSE SetTop(Dec(a), [Top(Dec(a)) EXCEPT !.childrenLoading = FALSE])

\* C33: a comments or children result that carries an error leaves the flash
\* as it was; the only thing it changes is the loading flag of that section
\* in the detail view showing the record.
C33_SectionErrorsAreSilent ==
    exit = "running" =>
        \A m \in SectionErrors \cup
                 {x \in UNION {Messages(c) : c \in BagToSet(pending)} :
                     x.type \in {"commentsLoadedMsg", "childrenLoadedMsg"} /\ x.err # NoErr} :
            LET r == Update(app, m, DefaultEnv)
            IN  /\ ~r.panic /\ ~r.quit /\ r.cmds = <<>>
                /\ r.app.flash = app.flash
                /\ r.app.flashIsErr = app.flashIsErr
                /\ r.app = SectionFailed(app, m)

\* the record could not be loaded, which is flashed, and afterwards its
\* comments and children failed as well: both sections stopped loading with
\* nothing to show and the flash still reports the record
C33_Witness ==
    /\ exit = "running"
    /\ Depth(app) = 1
    /\ app.flash # <<>> /\ Head(app.flash) = "Failed to load"
    /\ ~Top(app).commentsLoading /\ Top(app).comments = <<>>
    /\ ~Top(app).childrenLoading /\ Top(app).children = <<>>

\* a flash no handler sets
StaleFlash == <<"stale">>

\* C34: a key press dismisses the flash that was visible: whatever key is
\* pressed and whatever was flashed, the flash afterwards is empty or the
\* one the key's handler set, so the result of the key does not depend on
\* the flash that was visible before.
C34_KeyDismissesFlash ==
    exit = "running" =>
        \A key \in AllKeys :
            LET r     == Update(app, KeyMsg(key), DefaultEnv)
                stale == Update([app EXCEPT !.flash = StaleFlash], KeyMsg(key), DefaultEnv)
                clean == Update([app EXCEPT !.flash = <<>>], KeyMsg(key), DefaultEnv)
            IN  /\ stale.app.flash # StaleFlash
                /\ stale.app.flash = clean.app.flash
                /\ r.app.flash = clean.app.flash
                /\ app.flash # <<>> /\ ~r.quit /\ ~r.panic =>
                      r.app.flash = <<>> \/ r.app.flash = clean.app.flash

\* an error was flashed (a failed delete, an unavailable clipboard) and a
\* later key press dismissed it: the flash is empty while its error marker,
\* which only a flashed error sets, remains
C34_Witness ==
    /\ exit = "running"
    /\ app.flash = <<>>
    /\ app.flashIsErr

\* the back key pressed n times in a row
RECURSIVE Back(_, _)
Back(a, n) ==
    IF n = 0 THEN a ELSE Back(Update(a, KeyMsg("esc"), DefaultEnv).app, n - 1)

\* C35: with no overlay open and n views on the stack, pressing back n times
\* empties the stack and shows the tab that was active before, with its
\* list untouched; and no key and no result changes the active tab while a
\* view is on the stack or is being pushed.
C35_BackUnwindsToTab ==
    exit = "running" =>
        /\ app.overlay = NoOverlay =>
              LET b == Back(app, Depth(app))
              IN  /\ Depth(b) = 0
                  /\ b.overlay = NoOverlay
                  /\ b.activeTab = app.activeTab
                  /\ b.tabs = app.tabs
                  /\ \A n \in 0..Depth(app) : Depth(Back(app, n)) = Depth(app) - n
        /\ \A m \in {KeyMsg(key) : key \in AllKeys}
                    \cup UNION {Messages(c) : c \in BagToSet(pending)} :
              LET r == Update(app, m, DefaultEnv)
              IN  Depth(app) > 0 \/ Depth(r.app) > 0 => r.app.activeTab = app.activeTab

\* the second tab was chosen, a record opened and its child drilled into:
\* two views are stacked over the second tab
C35_Witness ==
    /\ exit = "running"
    /\ app.overlay = NoOverlay
    /\ Depth(app) = 2
    /\ app.activeTab = 1

\* the mutating edit hotkeys
MutatingKeys == {"s", "p", "d", "i", "a", "t", "e", "delete"}

\* the key reaches a handler that acts on a record: a record open in a
\* detail view, or the record selected in the ready active tab
OnRecord(a) ==
    /\ a.overlay = NoOverlay
    /\ \/ Depth(a) > 0
       \/ AtTabLevel(a) /\ HasSelection(ActiveTab(a))

\* the key was refused for want of a backend: the error is flashed, nothing
\* else changes, no overlay is open and no command is dispatched
Refused(a, key) ==
    LET r == Update(a, KeyMsg(key), DefaultEnv)
    IN  /\ ~r.panic /\ ~r.quit
        /\ r.cmds = <<>>
        /\ r.app.overlay = NoOverlay
        /\ r.app = [a EXCEPT !.flash = <<"Not connected to Jira">>, !.flashIsErr = TRUE]

\* the model as it is, and as it would be had NewApp been given no client
\* (the records and views shown are those a backend delivered)
WithoutClient == {app, [app EXCEPT !.client = FALSE]}

\* C36: without a backend client the create key, the add-comment key and
\* every mutating edit hotkey that has a record to act on are refused with
\* the "not connected" error flash; no key opens an overlay or dispatches a
\* command.
C36_NoClientRefusesEdits ==
    exit = "running" =>
        \A a \in {x \in WithoutClient : ~x.client} :
            /\ AtTabLevel(a) => Refused(a, "c")
            /\ a.overlay = NoOverlay /\ Depth(a) > 0 => Refused(a, "c")
            /\ OnRecord(a) => \A key \in MutatingKeys : Refused(a, key)
            /\ a.overlay = NoOverlay =>
                  \A key \in MutatingKeys \cup {"c"} :
                      LET r == Update(a, KeyMsg(key), DefaultEnv)
                      IN  r.cmds = <<>> /\ r.app.overlay = NoOverlay

\* NewApp was given no client and the create key was pressed: the error is
\* flashed and nothing is outstanding
C36_Witness ==
    /\ exit = "running"
    /\ ~app.client
    /\ app.flash = <<"Not connected to Jira">>
    /\ app.flashIsErr
    /\ app.overlay = NoOverlay
    /\ pending = EmptyBag

\* C37: the rows of a ready tab's table are the rows of the quick filter's
\* visible set, in the same order, so that the record selectedIssue returns
\* is the one highlighted at the cursor; also after a window resize while a
\* filter is active.
C37_RowsAreVisibleSet ==
    \A i \in 1..Len(app.tabs) :
        LET t == app.tabs[i]
        IN  t.state = "ready" =>
                t.table.rows = issuesToRows(visibleIssues(t.quickFilter, t.issues), Columns)

\* the results that carry overlay data
OverlayData ==
    {"transitionsLoadedMsg", "prioritiesLoadedMsg", "usersLoadedMsg", "issueTypesLoadedMsg"}

\* C38: while an overlay is open, no overlay-data result (transitions,
\* priorities, users or issue types, loaded or failed) replaces it or
\* dismisses it.
C38_ResultsKeepOpenOverlay ==
    exit = "running" /\ app.overlay # NoOverlay =>
        \A c \in BagToSet(pending) : \A m \in Messages(c) :
            m.type \in OverlayData =>
                Update(app, m, DefaultEnv).app.overlay = app.overlay

\* the comments of a list that came from the server, and its optimistic
\* placeholders
ServerComments(cs) == SelectSeq(cs, LAMBDA c : c.Created # "just now")
Placeholders(cs) == SelectSeq(cs, LAMBDA c : c.Created = "just now")

\* C39: whenever the result of an add-comment arrives for the record shown by
\* the topmost view, whatever was delivered in between: on error the list
\* loses one placeholder and keeps every server comment; on success one
\* placeholder is replaced by the stored comment and no server comment is
\* lost.
C39_CommentResultKeepsServerComments ==
    exit = "running" /\ Depth(app) > 0 =>
        \A c \in BagToSet(pending) : \A m \in Messages(c) :
            m.type = "commentAddedMsg" /\ m.issueKey = Top(app).issue.Key =>
                LET r      == Update(app, m, DefaultEnv)
                    before == Top(app).comments
                    after  == Top(r.app).comments
                IN  IF m.err # NoErr
                    THEN /\ ServerComments(after) = ServerComments(before)
                         /\ Len(Placeholders(before)) > 0 =>
                               Len(Placeholders(after)) = Len(Placeholders(before)) - 1
                    ELSE /\ Len(after) = Len(before)
                         /\ \A i \in 1..Len(ServerComments(before)) :
                               \E j \in 1..Len(after) : after[j] = ServerComments(before)[i]

\* C40: a ready tab has at least one record, and a tab that was loaded
\* without error and has no record is in the empty state; also after the
\* optimistic delete of the last record of a tab.
C40_ReadyTabHasRecords ==
    \A i \in 1..Len(app.tabs) :
        LET t == app.tabs[i]
        IN  /\ t.state = "ready" => Len(t.issues) > 0
            /\ t.state \notin {"loading", "error"} /\ Len(t.issues) = 0 => t.state = "empty"

====
